---- MODULE Spec2Model ----
(***************************************************************************)
(* Data/sync layer of the Gokul Sweets cost analytics PWA:                 *)
(*   - DB.Base           (src/db/base.js)        record store adapter      *)
(*   - DB.Ingredients    (src/auth.js:881-1024)  name-bearing collection   *)
(*   - Sync.OfflineQueue (src/sync/offline-queue.js)  change log           *)
(*   - Sync.Manager      (src/unnamed/part_012)  debounced save            *)
(*   - Sync.ConflictResolver (src/sync/conflict-resolver.js)               *)
(* The hosted backend is modelled by the table `rows`, with the            *)
(* constraints and triggers of the schema in src/unnamed/part_002.         *)
(* Every suspension point (await / timer) of the JavaScript is a separate  *)
(* action; the code between two suspension points is one atomic step.      *)
(***************************************************************************)
EXTENDS Integers, Sequences, FiniteSets, TLC

VARIABLES
  rows,        \* backend table `ingredients`: a set of rows
  nextId,      \* next server-assigned row id (gen_random_uuid, modelled as a counter)
  call,        \* per client: the DB.Ingredients call it is executing
  ncalls,      \* per client: number of calls started (bounded)
  online,      \* navigator.onLine
  isOnline,    \* Sync.OfflineQueue.isOnline
  queue,       \* Sync.OfflineQueue.queue
  stored,      \* localStorage['offline_sync_queue']
  storageFull, \* localStorage.setItem throws (quota exceeded)
  reloads,     \* number of times the page has been reloaded (bounded)
  isSyncing,   \* Sync.OfflineQueue.isSyncing
  drain,       \* processQueue: where it is suspended, and its local `item`
  drainTimers, \* pending setTimeout(processQueue, 1000) of handleOnline
  saveTimeout, \* Sync.Manager.saveTimeout: the save() whose timer it names
  saves,       \* the save() calls made so far: payload, timer and promise
  clock,       \* Date.now(), advanced at every enqueue
  replays,     \* history: per queue item id, its replays that succeeded / failed
  callbacks,   \* Sync.Realtime.callbacks: per table, the array of callbacks
  isInitialized, \* Sync.Realtime.isInitialized: the channels are subscribed
  handles,     \* the unsubscribe functions on() has returned: <<table, callback>>
  unsubscribed, \* history: handles called since the callback was last registered
  last,        \* history: the notification handled by the last step, if it
               \* was one, and the calls handleUpdate made for it
  channels,    \* Sync.Realtime.channels: table -> the channel set for it
  orphans,     \* channels opened, never unsubscribed and no longer in the Map
  retryTimers, \* table -> pending setTimeout(() => subscribe(table), 5000)
  submits,     \* the handleLogin / handleSignup runs that reached the auth call
  disabled,    \* form -> submitBtn.disabled
  shownError,  \* the message AuthUI shows, if any
  appShown,    \* AuthUI.showApp() has made the application visible
  sharedDoc,   \* payload of the shared_workspace row of gokul_app_data, if any
  saveData,    \* client -> its SupabaseSync.saveData call
  recipeRows,  \* backend table `recipes`: a set of rows
  links,       \* backend table `recipe_ingredients`: a set of rows
  recipeCall,  \* client -> the DB.Recipes call it is executing
  nextRecipeId \* next server-assigned id of a recipe row

backendVars == <<rows, nextId>>
storeVars == <<call, ncalls>>
syncVars == <<online, isOnline, queue, stored, storageFull, reloads, isSyncing, drain,
              drainTimers, saveTimeout, saves, clock, replays>>
realtimeVars == <<callbacks, isInitialized, handles, unsubscribed, last,
                  channels, orphans, retryTimers>>
authVars == <<submits, disabled, shownError, appShown>>
legacyVars == <<sharedDoc, saveData>>
recipeVars == <<recipeRows, links, recipeCall, nextRecipeId>>
vars == <<backendVars, storeVars, syncVars, realtimeVars, authVars, legacyVars,
         recipeVars>>

(***************************************************************************)
(* Bounds of the model                                                     *)
(***************************************************************************)
MaxCalls == 3      \* store calls started per client
MaxRows == 2       \* rows ever inserted into the table
MaxVersion == 3    \* highest expectedVersion a caller passes
MaxDupCalls == 2   \* calls per client when two clients run concurrently
MaxSaves == 3      \* Sync.Manager.save calls
MaxQueueSaves == 2 \* Sync.Manager.save calls when the page can be reloaded
MaxReloads == 1    \* page reloads
MaxCallbacks == 3  \* callbacks registered for one table
MaxOrphans == 2    \* channels replaced in the Map without being unsubscribed
MaxRetryTimers == 1 \* pending subscribe timers per table
MaxSubmits == 3     \* submissions of the sign-in forms that reach the auth call
MaxSaveData == 2    \* saveData calls per client
MaxRecipeCalls == 3 \* DB.Recipes calls per client
MaxRecipes == 2     \* rows ever inserted into the recipes table
MaxTimers == 2     \* pending processQueue timers of handleOnline
\* capacity of the change log: 100 in src/sync/offline-queue.js:10, scaled
\* down so that overflow is reached within MaxSaves saves
MAX_QUEUE_SIZE == 2

Clients == {"A", "B"}

(***************************************************************************)
(* Program constants                                                       *)
(***************************************************************************)
MAX_RETRIES == 3
RETRY_DELAY_MS == 1000
DEFAULT_ORG_ID == "org-0001"

\* optional values: JavaScript null is the empty sequence, a value v is <<v>>
Null == <<>>
Some(v) == <<v>>

(***************************************************************************)
(* Names are sequences of characters, so that lower-casing and trimming    *)
(* are computed and not assumed.                                           *)
(***************************************************************************)
LowerChar(ch) ==
  CASE ch = "M" -> "m"
    [] ch = "S" -> "s"
    [] OTHER -> ch

\* SQL LOWER(name) / the case folding of ILIKE
Lower(name) == [i \in 1..Len(name) |-> LowerChar(name[i])]

RECURSIVE TrimStart(_)
TrimStart(s) == IF s /= <<>> /\ Head(s) = " " THEN TrimStart(Tail(s)) ELSE s

RECURSIVE TrimEnd(_)
TrimEnd(s) ==
  IF s /= <<>> /\ s[Len(s)] = " " THEN TrimEnd(SubSeq(s, 1, Len(s) - 1)) ELSE s

\* String.prototype.trim
Trim(s) == TrimEnd(TrimStart(s))

\* mutation: a case-sensitive comparison
ILike_CaseSensitive(value, pattern) == value = pattern

\* .ilike('name', pattern) for a pattern without the wildcards % and _
ILike(value, pattern) == Lower(value) = Lower(pattern)

Names == { <<"m">>, <<"M">>, <<"s">>, <<"m", " ">> }

(***************************************************************************)
(* Errors                                                                  *)
(***************************************************************************)
Err(code) == [code |-> code, expectedVersion |-> Null, currentVersion |-> Null]

VersionConflict(expected, current) ==
  [code |-> "VERSION_CONFLICT", expectedVersion |-> Some(expected),
   currentVersion |-> Some(current)]

NonRetryableCodes ==
  {"23505", "23503", "23502", "23514", "42P01", "42703", "PGRST204"}

\* mutation: the check-constraint code is missing from the list
isNonRetryableError_NoCheckCode(error) ==
  error.code \in NonRetryableCodes \ {"23514"}

isNonRetryableError(error) == error.code \in NonRetryableCodes

\* mutation: a fixed delay instead of the doubling one
RetryDelay_Fixed(attempt) == RETRY_DELAY_MS

\* delay before the retry that follows failed attempt number `attempt`
RetryDelay(attempt) == RETRY_DELAY_MS * 2 ^ (attempt - 1)

\* Failures the backend or the transport can answer any request with,
\* independently of the table contents: "" is the code of a failed fetch,
\* PGRST301 an expired token, 23503 a row still referenced by a recipe,
\* 23502 a payload with a required column null, 42P01 / 42703 a schema that
\* lacks the table or column.
InjectedCodes ==
  {"", "PGRST301", "23503", "23502", "42P01", "42703", "PGRST204"}

(***************************************************************************)
(* The backend table (schema: src/unnamed/part_002)                        *)
(***************************************************************************)
Units == {"kg", "g", "L", "ml", "pieces", "dozen", "packet"}

Has(d, k) == k \in DOMAIN d

\* rows selected by .eq('id', id).eq('organization_id', org)
Select(tbl, id, org) == {r \in tbl : r.id = id /\ r.organization_id = org}

\* UNIQUE (organization_id, LOWER(name))
UniqueViolation(tbl, row) ==
  \E r \in tbl : /\ r.id /= row.id
                 /\ r.organization_id = row.organization_id
                 /\ Lower(r.name) = Lower(row.name)

\* CONSTRAINT valid_price, CONSTRAINT valid_unit
CheckViolation(row) == row.price_per_unit < 0 \/ row.unit \notin Units

\* INSERT ... RETURNING *, answered by the backend: <<table', data, error>>
BackendInsert(tbl, id, recordData) ==
  LET row == [id |-> id,
              organization_id |-> recordData.organization_id,
              created_by |-> recordData.created_by,
              name |-> recordData.name,
              unit |-> recordData.unit,
              price_per_unit |-> recordData.price_per_unit,
              version |-> 1]
  IN IF CheckViolation(row) THEN <<tbl, Null, Some(Err("23514"))>>
     ELSE IF UniqueViolation(tbl, row) THEN <<tbl, Null, Some(Err("23505"))>>
     ELSE <<tbl \cup {row}, Some(row), Null>>

\* mutation: the trigger does not run, the version column is left alone
UpdatedRow_NoTrigger(old, data) ==
  [k \in DOMAIN old |-> IF Has(data, k) THEN data[k] ELSE old[k]]

\* the row an UPDATE ... SET data produces: the columns named by data are
\* overwritten, then the trigger update_timestamp_and_version sets
\* version = OLD.version + 1 whatever data says
UpdatedRow(old, data) ==
  [k \in DOMAIN old |->
     IF k = "version" THEN old.version + 1
     ELSE IF Has(data, k) THEN data[k] ELSE old[k]]

\* UPDATE ... WHERE id AND organization_id RETURNING * .single()
BackendUpdate(tbl, id, org, data) ==
  LET sel == Select(tbl, id, org)
  IN IF sel = {} THEN <<tbl, Null, Some(Err("PGRST116"))>>
     ELSE LET old == CHOOSE r \in sel : TRUE
              new == UpdatedRow(old, data)
          IN IF CheckViolation(new) THEN <<tbl, Null, Some(Err("23514"))>>
             ELSE IF UniqueViolation(tbl, new)
                  THEN <<tbl, Null, Some(Err("23505"))>>
             ELSE <<(tbl \ {old}) \cup {new}, Some(new), Null>>

\* DELETE ... WHERE id AND organization_id RETURNING * .single()
BackendDelete(tbl, id, org) ==
  LET sel == Select(tbl, id, org)
  IN IF sel = {} THEN <<tbl, Null, Some(Err("PGRST116"))>>
     ELSE LET old == CHOOSE r \in sel : TRUE
          IN <<tbl \ {old}, Some(old), Null>>

\* SELECT id, name ... .ilike('name', name) [.neq('id', excludeId)]
DuplicateRows(tbl, org, name, excludeId) ==
  {r \in tbl : /\ r.organization_id = org
               /\ ILike(r.name, name)
               /\ (excludeId = Null \/ r.id /= excludeId[1])}

(***************************************************************************)
(* DB.Base.executeWithRetry and the DB.Ingredients calls that run in it    *)
(***************************************************************************)
\* window.Auth.currentUser.id of the session of client c
UserOf(c) == c

IdleCall ==
  [pc |-> "idle", action |-> "none", id |-> Null, data |-> <<>>,
   expectedVersion |-> Null,
   attempt |-> 0,          \* loop variable of executeWithRetry
   lastError |-> Null,
   current |-> Null,       \* version read by update's conflict check, if any
   errs |-> <<>>,          \* errors logged by console.error, one per failed attempt
   slept |-> <<>>,         \* delays passed to sleep(), in order
   result |-> Null,        \* value the call returned
   error |-> Null,         \* error the call threw
   staleAtCall |-> FALSE,  \* history: the row's version exceeded expectedVersion
                           \* when update was called
   merge |-> Null,         \* history: the arguments of the mergeData that made
                           \* the call, and the record it built
   resolve |-> Null]       \* history: the strategy and the arguments of the
                           \* resolve / autoResolve / showConflictUI behind it

\* first remote request of operation(): update reads the version first
\* when expectedVersion !== null
FirstStep(cl) ==
  IF cl.action = "update" /\ cl.expectedVersion /= Null THEN "read" ELSE "write"

\* the catch block of executeWithRetry, and the throw after the loop
Catch(cl, e) ==
  LET logged == [cl EXCEPT !.lastError = Some(e), !.errs = Append(@, e)]
  IN IF isNonRetryableError(e)
       THEN [logged EXCEPT !.pc = "thrown", !.error = Some(e)]
     ELSE IF cl.attempt < MAX_RETRIES
       THEN [logged EXCEPT !.pc = "sleep",
                           !.slept = Append(@, RetryDelay(cl.attempt))]
     ELSE [logged EXCEPT !.pc = "thrown", !.attempt = cl.attempt + 1,
                         !.error = logged.lastError]

\* parseFloat of a number
ParseFloat(x) == x

CreateInputs ==
  {[name |-> n, unit |-> "kg", price_per_unit |-> 50] : n \in Names}

UpdateInputs ==
  {[price_per_unit |-> 10], [price_per_unit |-> -5]}
    \cup {[name |-> n] : n \in {<<"M">>, <<"s", " ">>}}

\* DB.Ingredients.create(ingredientData), up to the await of checkDuplicate
IngredientsCreate(c, data) ==
  /\ call[c].pc = "idle"
  /\ ncalls[c] < MaxCalls
  /\ data.name /= <<>>
  /\ call' = [call EXCEPT ![c] =
       [IdleCall EXCEPT !.pc = "dupcheck", !.action = "create", !.data = data]]
  /\ ncalls' = [ncalls EXCEPT ![c] = @ + 1]
  /\ UNCHANGED <<recipeVars, authVars, legacyVars, syncVars, realtimeVars, rows, nextId>>

\* the call DB.Ingredients.update(id, updates, expectedVersion) has become
\* at its first await
UpdateCall(id, updates, expectedVersion) ==
  LET sel == Select(rows, id, DEFAULT_ORG_ID)
      stale == /\ expectedVersion /= Null
               /\ \E r \in sel : r.version > expectedVersion[1]
      started == [IdleCall EXCEPT !.action = "update", !.id = Some(id),
                                  !.expectedVersion = expectedVersion,
                                  !.staleAtCall = stale]
  IN IF Has(updates, "name")
       THEN [started EXCEPT !.pc = "dupcheck", !.data = updates]
     ELSE LET parsed == [k \in DOMAIN updates |->
                           IF k = "price_per_unit"
                             THEN ParseFloat(updates[k]) ELSE updates[k]]
              ready == [started EXCEPT !.data = parsed, !.attempt = 1]
          IN [ready EXCEPT !.pc = FirstStep(ready)]

\* DB.Ingredients.update(id, updates, expectedVersion), up to its first await
IngredientsUpdate(c, id, updates, expectedVersion) ==
  /\ call[c].pc = "idle"
  /\ ncalls[c] < MaxCalls
  /\ call' = [call EXCEPT ![c] = UpdateCall(id, updates, expectedVersion)]
  /\ ncalls' = [ncalls EXCEPT ![c] = @ + 1]
  /\ UNCHANGED <<recipeVars, authVars, legacyVars, syncVars, realtimeVars, rows, nextId>>

\* the fields mergeData never takes from the local record
MetadataKeys ==
  {"id", "created_at", "updated_at", "version", "organization_id", "created_by"}

\* mutation: the merge starts from the local record
Merged_FromLocal(localData, remoteData) ==
  [k \in DOMAIN remoteData \cup DOMAIN localData |->
     IF k \in DOMAIN localData THEN localData[k] ELSE remoteData[k]]

\* the record mergeData builds: {...remoteData}, then every key of
\* localData outside the metadata whose value !== remoteData's
Merged(localData, remoteData) ==
  LET taken == {k \in DOMAIN localData :
                  /\ k \notin MetadataKeys
                  /\ (k \notin DOMAIN remoteData \/ localData[k] /= remoteData[k])}
  IN [k \in DOMAIN remoteData \cup taken |->
        IF k \in taken THEN localData[k] ELSE remoteData[k]]

\* mutation: the lock token is the version of the local record
LockToken_Local(localData, remoteData) ==
  IF Has(localData, "version") THEN Some(localData.version) ELSE Null

\* the lock token mergeData passes to update: remoteData.version
LockToken(localData, remoteData) == Some(remoteData.version)

\* ConflictResolver.mergeData(localData, remoteData, 'ingredients', recordId)
\* up to the first await of the update it calls
MergeData(c, localData, remoteData, recordId) ==
  /\ call[c].pc = "idle"
  /\ ncalls[c] < MaxCalls
  /\ LET merged == Merged(localData, remoteData)
         token == LockToken(localData, remoteData)
     IN call' = [call EXCEPT ![c] =
          [UpdateCall(recordId, merged, token) EXCEPT
             !.merge = Some([localData |-> localData,
                             remoteData |-> remoteData,
                             merged |-> merged])]]
  /\ ncalls' = [ncalls EXCEPT ![c] = @ + 1]
  /\ UNCHANGED <<recipeVars, authVars, legacyVars, syncVars, realtimeVars, rows, nextId>>

\* DB.Ingredients.delete(id) -> DB.Base.delete
IngredientsDelete(c, id) ==
  /\ call[c].pc = "idle"
  /\ ncalls[c] < MaxCalls
  /\ call' = [call EXCEPT ![c] =
       [IdleCall EXCEPT !.pc = "write", !.action = "delete", !.id = Some(id),
                        !.attempt = 1]]
  /\ ncalls' = [ncalls EXCEPT ![c] = @ + 1]
  /\ UNCHANGED <<recipeVars, authVars, legacyVars, syncVars, realtimeVars, rows, nextId>>

\* the answer to DB.Base.checkDuplicate, and the code that follows it in
\* create / update up to the first request of executeWithRetry
CheckDuplicateReply(c) ==
  /\ call[c].pc = "dupcheck"
  /\ LET cl == call[c]
         found == DuplicateRows(rows, DEFAULT_ORG_ID, cl.data.name, cl.id)
         \* maybeSingle(): one row -> data; none -> null; several -> PGRST116,
         \* which checkDuplicate ignores, leaving data null
         isDuplicate == Cardinality(found) = 1
         trimmed == [cl.data EXCEPT !.name = Trim(@)]
         parsed == [k \in DOMAIN trimmed |->
                      IF k = "price_per_unit"
                        THEN ParseFloat(trimmed[k]) ELSE trimmed[k]]
         ready == [cl EXCEPT !.data = parsed, !.attempt = 1]
     IN call' = [call EXCEPT ![c] =
          IF isDuplicate
            THEN [cl EXCEPT !.pc = "thrown", !.error = Some(Err("DUPLICATE"))]
          ELSE [ready EXCEPT !.pc = FirstStep(ready)]]
  /\ UNCHANGED <<recipeVars, authVars, legacyVars, syncVars, realtimeVars, rows, nextId, ncalls>>

\* checkDuplicate's query fails: the error is thrown out of create / update
CheckDuplicateFails(c, code) ==
  /\ call[c].pc = "dupcheck"
  /\ code /= "PGRST116"
  /\ call' = [call EXCEPT ![c] =
       [@ EXCEPT !.pc = "thrown", !.error = Some(Err(code))]]
  /\ UNCHANGED <<recipeVars, authVars, legacyVars, syncVars, realtimeVars, rows, nextId, ncalls>>

\* DB.Base.update: the answer to select('version') ... .single().
\* served = FALSE is a failed request: data is null and the error is dropped
VersionRead(c, served) ==
  /\ call[c].pc = "read"
  /\ LET cl == call[c]
         sel == IF served THEN Select(rows, cl.id[1], DEFAULT_ORG_ID) ELSE {}
         current == IF sel = {} THEN Null
                    ELSE Some((CHOOSE r \in sel : TRUE).version)
     IN call' = [call EXCEPT ![c] =
          IF current /= Null /\ current /= cl.expectedVersion
            THEN Catch([cl EXCEPT !.current = current],
                       VersionConflict(cl.expectedVersion[1], current[1]))
          ELSE [cl EXCEPT !.pc = "write", !.current = current]]
  /\ UNCHANGED <<recipeVars, authVars, legacyVars, syncVars, realtimeVars, rows, nextId, ncalls>>

\* SELECT * WHERE id AND organization_id .single()
BackendSelect(tbl, id, org) ==
  LET sel == Select(tbl, id, org)
  IN IF sel = {} THEN <<tbl, Null, Some(Err("PGRST116"))>>
     ELSE <<tbl, Some(CHOOSE r \in sel : TRUE), Null>>

\* SELECT * WHERE organization_id (the rows, whatever their order)
BackendList(tbl, org) ==
  <<tbl, Some({r \in tbl : r.organization_id = org}), Null>>

\* mutation: the caller's organization_id and created_by are kept
RecordData_FromPayload(data, orgId, user) ==
  [k \in DOMAIN data \cup {"organization_id", "created_by"} |->
     IF k \in DOMAIN data THEN data[k]
     ELSE IF k = "organization_id" THEN orgId ELSE user]

\* DB.Base.create: { ...data, organization_id: orgId, created_by: user.id }
RecordData(data, orgId, user) ==
  [k \in DOMAIN data \cup {"organization_id", "created_by"} |->
     IF k = "organization_id" THEN orgId
     ELSE IF k = "created_by" THEN user
     ELSE data[k]]

\* the request of operation() is served by the backend
Write(c) ==
  /\ call[c].pc = "write"
  /\ LET cl == call[c]
         recordData == RecordData(cl.data, DEFAULT_ORG_ID, UserOf(c))
         reply == CASE cl.action = "create" ->
                         BackendInsert(rows, nextId, recordData)
                    [] cl.action = "update" ->
                         BackendUpdate(rows, cl.id[1], DEFAULT_ORG_ID, cl.data)
                    [] cl.action = "get" ->
                         BackendSelect(rows, cl.id[1], DEFAULT_ORG_ID)
                    [] cl.action = "list" ->
                         BackendList(rows, DEFAULT_ORG_ID)
                    [] OTHER ->
                         BackendDelete(rows, cl.id[1], DEFAULT_ORG_ID)
     IN /\ cl.action = "create" => nextId <= MaxRows
        /\ rows' = reply[1]
        /\ nextId' = IF cl.action = "create" /\ reply[3] = Null
                       THEN nextId + 1 ELSE nextId
        /\ call' = [call EXCEPT ![c] =
             IF reply[3] /= Null THEN Catch(cl, reply[3][1])
             ELSE [cl EXCEPT !.pc = "returned", !.result = reply[2]]]
  /\ UNCHANGED <<recipeVars, authVars, legacyVars, syncVars, realtimeVars, ncalls>>

\* the write request fails without touching the table
WriteFails(c, code) ==
  /\ call[c].pc = "write"
  /\ call' = [call EXCEPT ![c] = Catch(@, Err(code))]
  /\ UNCHANGED <<recipeVars, authVars, legacyVars, syncVars, realtimeVars, rows, nextId, ncalls>>

\* the timer of sleep(delay) fires: next iteration of the retry loop
Wake(c) ==
  /\ call[c].pc = "sleep"
  /\ call' = [call EXCEPT ![c] =
       LET next == [@ EXCEPT !.attempt = @ + 1, !.current = Null]
       IN [next EXCEPT !.pc = FirstStep(next)]]
  /\ UNCHANGED <<recipeVars, authVars, legacyVars, syncVars, realtimeVars, rows, nextId, ncalls>>

\* the caller has taken the result or the error; the client is free again
Settle(c) ==
  /\ call[c].pc \in {"returned", "thrown"}
  /\ call' = [call EXCEPT ![c] = IdleCall]
  /\ UNCHANGED <<recipeVars, authVars, legacyVars, syncVars, realtimeVars, rows, nextId, ncalls>>

\* running: history, the processQueue invocations that are inside the loop;
\* refused: history, a processQueue call has returned on the isSyncing test
\* since the loop was entered
\* the tables Sync.Realtime.init subscribes to that are used here
Tables == {"ingredients", "recipes"}

\* no saveData call of the client is running; done counts the calls that
\* returned { success: true }
IdleSaveData ==
  [pc |-> "idle", payload |-> Null, existing |-> Null, done |-> 0,
   error |-> Null]

\* no DB.Recipes call of the client is running; n counts the calls started
IdleRecipeCall ==
  [pc |-> "idle", action |-> "none", id |-> Null, name |-> <<>>,
   ingredients |-> Null,  \* the ingredients list of the call, if it has one
   recipe |-> Null,       \* create: the row the insert returned
   result |-> Null, error |-> Null, n |-> 0]

\* the forms of the sign-in screen: handleLogin and handleSignup
Forms == {"login", "signup"}

IdleDrain == [pc |-> "idle", item |-> Null, running |-> 0, refused |-> FALSE]

Init ==
  /\ rows = {}
  /\ nextId = 1
  /\ call = [c \in Clients |-> IdleCall]
  /\ ncalls = [c \in Clients |-> 0]
  /\ online = TRUE
  /\ isOnline = TRUE
  /\ queue = <<>>
  /\ stored = <<>>
  /\ storageFull = FALSE
  /\ reloads = 0
  /\ isSyncing = FALSE
  /\ drain = IdleDrain
  /\ drainTimers = 0
  /\ saveTimeout = Null
  /\ saves = <<>>
  /\ clock = 1
  /\ replays = <<>>
  /\ callbacks = [t \in Tables |-> <<>>]
  /\ isInitialized = FALSE
  /\ handles = {}
  /\ unsubscribed = {}
  /\ last = Null
  /\ channels = [t \in Tables |-> Null]
  /\ orphans = <<>>
  /\ retryTimers = [t \in Tables |-> 0]
  /\ submits = <<>>
  /\ disabled = [f \in Forms |-> FALSE]
  /\ shownError = Null
  /\ appShown = FALSE
  /\ sharedDoc = Null
  /\ saveData = [c \in Clients |-> IdleSaveData]
  /\ recipeRows = {}
  /\ links = {}
  /\ recipeCall = [c \in Clients |-> IdleRecipeCall]
  /\ nextRecipeId = 1

\* One client issuing calls one after the other: the retry loop, the
\* optimistic lock and every failure the backend can answer with.
NextRetry ==
  \/ \E data \in CreateInputs : IngredientsCreate("A", data)
  \/ \E id \in 1..MaxRows, u \in UpdateInputs,
        ev \in {Null} \cup {Some(v) : v \in 1..MaxVersion} :
        IngredientsUpdate("A", id, u, ev)
  \/ \E id \in 1..MaxRows : IngredientsDelete("A", id)
  \/ CheckDuplicateReply("A")
  \/ \E code \in InjectedCodes : CheckDuplicateFails("A", code)
  \/ \E served \in BOOLEAN : VersionRead("A", served)
  \/ Write("A")
  \/ \E code \in InjectedCodes : WriteFails("A", code)
  \/ Wake("A")
  \/ Settle("A")

SpecRetry == Init /\ [][NextRetry]_vars

(***************************************************************************)
(* Claims about the retry loop and the optimistic lock (SpecRetry)         *)
(***************************************************************************)
\* the calls that have left executeWithRetry with an error
ThrownByRetry(cl) == cl.pc = "thrown" /\ cl.errs /= <<>>

ConstraintCodes == {"23505", "23503", "23502", "23514", "42P01", "42703"}

\* C1: an operation whose every attempt fails with a retryable error is
\* attempted exactly 3 times, with sleeps of 1000ms then 2000ms and none
\* after the third failure, and the error thrown is the third attempt's.
C1_RetryCeiling ==
  \A c \in Clients :
    LET cl == call[c]
    IN (/\ ThrownByRetry(cl)
        /\ \A i \in 1..Len(cl.errs) :
             cl.errs[i].code \notin ConstraintCodes \cup {"PGRST204"})
       => /\ Len(cl.errs) = 3
          /\ cl.slept = <<1000, 2000>>
          /\ cl.error = Some(cl.errs[3])

\* C1 witness: three retryable failures, the last differing from the first
C1_Witness ==
  \E c \in Clients :
    LET cl == call[c]
    IN /\ ThrownByRetry(cl)
       /\ Len(cl.errs) = 3
       /\ cl.errs[1].code = "" /\ cl.errs[3].code = "PGRST301"

\* C2: an operation that fails with a constraint-violation error is
\* attempted exactly once: the error is thrown at once, nothing is slept,
\* no second attempt is made.
C2_NonRetryableOnce ==
  \A c \in Clients :
    LET cl == call[c]
    IN (cl.errs /= <<>> /\ cl.errs[1].code \in ConstraintCodes)
       => /\ cl.pc = "thrown"
          /\ cl.attempt = 1
          /\ Len(cl.errs) = 1
          /\ cl.slept = <<>>
          /\ cl.error = Some(cl.errs[1])

\* C2 witness: a check-constraint violation answered by the backend itself
C2_Witness ==
  \E c \in Clients :
    /\ call[c].pc = "thrown"
    /\ call[c].errs = <<Err("23514")>>
    /\ call[c].data = [price_per_unit |-> -5]

\* C3: an update called with an expectedVersion older than the stored
\* version fails with a version-conflict error carrying both versions and
\* does not write the record.  Stated by what the claim excludes: such a
\* call never returns a written row, and the error it throws is the
\* version conflict with both versions.
C3_StaleUpdateRejected ==
  \A c \in Clients :
    LET cl == call[c]
    IN (cl.action = "update" /\ cl.staleAtCall /\ cl.attempt >= 1)
       => /\ cl.pc /= "returned"
          /\ cl.pc = "thrown" /\ cl.errs[Len(cl.errs)].code = "VERSION_CONFLICT"
               => /\ cl.error[1].code = "VERSION_CONFLICT"
                  /\ cl.error[1].expectedVersion = cl.expectedVersion
                  /\ cl.error[1].currentVersion /= Null

(***************************************************************************)
(* Two clients creating, renaming and deleting concurrently (SpecDup)      *)
(***************************************************************************)
RenameInputs == {[name |-> n] : n \in {<<"M">>, <<"s">>}}

NextDup ==
  \/ \E c \in Clients, data \in CreateInputs :
        ncalls[c] < MaxDupCalls /\ IngredientsCreate(c, data)
  \/ \E c \in Clients, id \in 1..MaxRows, u \in RenameInputs :
        ncalls[c] < MaxDupCalls /\ IngredientsUpdate(c, id, u, Null)
  \/ \E c \in Clients, id \in 1..MaxRows :
        ncalls[c] < MaxDupCalls /\ IngredientsDelete(c, id)
  \/ \E c \in Clients : CheckDuplicateReply(c)
  \/ \E c \in Clients : CheckDuplicateFails(c, "")
  \/ \E c \in Clients : Write(c)
  \/ \E c \in Clients : Settle(c)

\* Failed write requests and their retries are the subject of SpecRetry; a
\* failed insert or update leaves the table as it was.
SpecDup == Init /\ [][NextDup]_vars

\* a row of the workspace whose name differs from `name` at most in case
CaseVariantStored(name) ==
  \E r \in rows : /\ r.organization_id = DEFAULT_ORG_ID
                  /\ Lower(r.name) = Lower(name)

C4_NoDuplicateRows ==
  \A r1 \in rows : \A r2 \in rows :
    (r1.organization_id = r2.organization_id /\ Lower(r1.name) = Lower(r2.name))
      => r1 = r2

\* the duplicate lookup of a create, answered while a case variant of the
\* name is stored, throws DUPLICATE (or the lookup request's own failure)
\* and the call goes no further
C4_LookupRejects ==
  \A c \in Clients :
    (/\ call[c].pc = "dupcheck" /\ call[c].action = "create"
     /\ call'[c].pc /= "dupcheck"
     /\ CaseVariantStored(call[c].data.name))
    => /\ rows' = rows
       /\ call'[c].pc = "thrown"
       /\ call'[c].error[1].code \in {"DUPLICATE", ""}

\* an insert that reaches the backend while a case variant is stored (the
\* other client inserted after this client's lookup) is refused as a
\* unique violation and adds no row
C4_InsertRejects ==
  \A c \in Clients :
    (/\ call[c].pc = "write" /\ call[c].action = "create"
     /\ call'[c].pc /= "write"
     /\ CaseVariantStored(call[c].data.name))
    => /\ rows' = rows
       /\ call'[c].pc = "thrown"
       /\ call'[c].error[1].code = "23505"

\* C4: once a name is stored, creating a name that differs only in letter
\* case raises a duplicate error and adds no row; no two rows of a workspace
\* ever share lower(name), also when two clients create concurrently.
C4_DuplicatePrevention ==
  /\ []C4_NoDuplicateRows
  /\ [][C4_LookupRejects /\ C4_InsertRejects]_vars

\* C4 witness: "M" was refused as DUPLICATE while "m" is stored, and the
\* other client's concurrent insert was refused by the unique constraint
C4_Witness ==
  /\ \E r \in rows : r.name = <<"m">>
  /\ \E c \in Clients :
       /\ call[c].pc = "thrown" /\ call[c].action = "create"
       /\ call[c].data.name = <<"M">>
       /\ call[c].error[1].code = "DUPLICATE"
  /\ \E c \in Clients :
       /\ call[c].pc = "thrown" /\ call[c].action = "create"
       /\ call[c].error[1].code = "23505"

(***************************************************************************)
(* Sync.OfflineQueue and Sync.Manager (SpecSync).  One browser session,    *)
(* user "A".  A DB module call made by save() or by the drain is one       *)
(* suspension: it ends either served by the backend (RunStore, the outcome *)
(* of the call's lookup and write against the table) or thrown with the    *)
(* error its retries ended with, the table untouched.                      *)
(***************************************************************************)
SyncUser == "A"

Op(action, data, id) ==
  [table |-> "ingredients", action |-> action, data |-> data, id |-> id]

SyncOps ==
  { Op("create", [name |-> <<"S">>, unit |-> "kg", price_per_unit |-> 50], Null),
    Op("create", [name |-> <<"G", " ">>, unit |-> "kg", price_per_unit |-> 50], Null),
    Op("update", [price_per_unit |-> 10], Some(1)),
    Op("delete", <<>>, Some(1)) }

\* errors a DB module call made while syncing can end with when the
\* backend does not serve it
SyncFailCodes == {""}

\* window.DB.Ingredients.create / update / delete served by the backend:
\* <<table', data, error>>
RunStore(tbl, nid, user, operation) ==
  LET data == operation.data
  IN CASE operation.table = "recipes" ->
            \* DB.Recipes.delete(id): the recipes table has no rows here
            LET reply == BackendDelete({}, operation.id[1], DEFAULT_ORG_ID)
            IN <<tbl, reply[2], reply[3]>>
       [] operation.action = "create" ->
            IF Cardinality(DuplicateRows(tbl, DEFAULT_ORG_ID, data.name, Null)) = 1
              THEN <<tbl, Null, Some(Err("DUPLICATE"))>>
            ELSE BackendInsert(tbl, nid,
                   [name |-> Trim(data.name), unit |-> data.unit,
                    price_per_unit |-> ParseFloat(data.price_per_unit),
                    organization_id |-> DEFAULT_ORG_ID, created_by |-> user])
       [] operation.action = "update" ->
            IF /\ Has(data, "name")
               /\ Cardinality(DuplicateRows(tbl, DEFAULT_ORG_ID, data.name,
                                            operation.id)) = 1
              THEN <<tbl, Null, Some(Err("DUPLICATE"))>>
            ELSE BackendUpdate(tbl, operation.id[1], DEFAULT_ORG_ID,
                   [k \in DOMAIN data |->
                      IF k = "name" THEN Trim(data[k])
                      ELSE IF k = "price_per_unit" THEN ParseFloat(data[k])
                      ELSE data[k]])
       [] OTHER -> BackendDelete(tbl, operation.id[1], DEFAULT_ORG_ID)

\* Array.prototype.shift
Shift(q) == IF q = <<>> THEN q ELSE Tail(q)

\* JSON.stringify(this.queue): the text is modelled by the sequence of the
\* items' members in the order they are written; an item that never failed
\* has no `attempts` member, which the queue models by attempts = 0
Stringify(q) ==
  [j \in 1..Len(q) |->
     <<q[j].id, q[j].timestamp, q[j].operation.table, q[j].operation.action,
       q[j].operation.data, q[j].operation.id, q[j].attempts>>]

\* JSON.parse(stored)
ParseJson(text) ==
  [j \in 1..Len(text) |->
     [id |-> text[j][1], timestamp |-> text[j][2],
      operation |-> [table |-> text[j][3], action |-> text[j][4],
                     data |-> text[j][5], id |-> text[j][6]],
      attempts |-> text[j][7]]]

\* mutation: saveQueue is not called
Persisted_Skipped(q) == stored

\* localStorage['offline_sync_queue'] after saveQueue(): setItem may throw,
\* which saveQueue logs and swallows
Persisted(q) == IF storageFull THEN stored ELSE Stringify(q)

\* mutation: the capacity check is missing
Enqueued_Unbounded(q, operation, now) ==
  Append(q, [id |-> now, timestamp |-> now, operation |-> operation,
             attempts |-> 0])

\* the queue after OfflineQueue.enqueue(operation) at time `now`
Enqueued(q, operation, now) ==
  Append(IF Len(q) >= MAX_QUEUE_SIZE THEN Shift(q) ELSE q,
         [id |-> now, timestamp |-> now, operation |-> operation,
          attempts |-> 0])

\* mutation: a failed item is put back without being taken off the head
AfterFailure_NoShift(q, item) ==
  LET it == [item EXCEPT !.attempts = @ + 1]
  IN IF it.attempts >= 3 THEN Shift(q) ELSE Append(q, it)

\* mutation: a failed item is moved to the tail whatever its attempts
AfterFailure_Requeued(q, item) ==
  Append(Shift(q), [item EXCEPT !.attempts = @ + 1])

\* the queue after the catch block of the drain loop
AfterFailure(q, item) ==
  LET it == [item EXCEPT !.attempts = @ + 1]
  IN IF it.attempts >= 3 THEN Shift(q) ELSE Append(Shift(q), it)

\* mutation: a replayed item is left in the queue
AfterSuccess_Kept(q) == q

\* the queue after a successful executeOperation
AfterSuccess(q) == Shift(q)

\* mutation: clearing the timer rejects the promise of its save
Cleared_Rejected(sv, timeout) ==
  [j \in 1..Len(sv) |->
     IF timeout = Some(j) /\ sv[j].state = "armed"
       THEN [sv[j] EXCEPT !.state = "rejected", !.error = Some(Err("CANCELLED"))]
     ELSE sv[j]]

\* mutation: the pending timer is not cleared
Cleared_None(sv, timeout) == sv

\* clearTimeout(this.saveTimeout): a timer that has not fired never fires,
\* and the promise of its save() is left pending for ever
Cleared(sv, timeout) ==
  [j \in 1..Len(sv) |->
     IF timeout = Some(j) /\ sv[j].state = "armed"
       THEN [sv[j] EXCEPT !.state = "superseded"]
     ELSE sv[j]]

\* Sync.Manager.save(table, action, data, id), up to the returned promise
Save(operation) ==
  /\ Len(saves) < MaxSaves
  /\ LET k == Len(saves) + 1
     IN /\ saves' = Append(Cleared(saves, saveTimeout),
               [operation |-> operation, state |-> "armed",
                called |-> Null,   \* history: payload of its DB module call
                inWindow |->       \* history: made while the previous save's
                  /\ saves /= <<>>  \* timer was still pending
                  /\ saves[Len(saves)].state = "armed",
                indicator |-> Null, \* last UI.SaveIndicator.show(...) of it
                handled |-> Null,   \* error given to UI.ErrorHandler.show
                result |-> Null, error |-> Null])
        /\ saveTimeout' = Some(k)
  /\ UNCHANGED <<recipeVars, authVars, legacyVars, backendVars, storeVars, realtimeVars, storageFull, reloads, online, isOnline, queue, stored,
                 isSyncing, drain, drainTimers, clock, replays>>

\* mutation: the debounce callback never takes the offline branch
Offline_Never(on) == FALSE

\* !navigator.onLine && window.Sync.OfflineQueue
Offline(on) == ~on

\* the debounce timer of save number k fires
SaveTimerFires(k) ==
  /\ k \in 1..Len(saves)
  /\ saves[k].state = "armed"
  /\ IF Offline(online)
       THEN /\ queue' = Enqueued(queue, saves[k].operation, clock)
            /\ stored' = Persisted(queue')
            /\ clock' = clock + 1
            /\ replays' = Append(replays, [ok |-> 0, failed |-> 0])
            /\ saves' = [saves EXCEPT ![k].state = "resolved",
                                       ![k].result = Some([queued |-> TRUE])]
       ELSE /\ saves' = [saves EXCEPT ![k].state = "running",
                                       ![k].indicator = Some("saving"),
                                       ![k].called = Some(saves[k].operation)]
            /\ UNCHANGED <<queue, stored, clock, replays>>
  /\ UNCHANGED <<recipeVars, authVars, legacyVars, backendVars, storeVars, realtimeVars, storageFull, reloads, online, isOnline, isSyncing, drain,
                 drainTimers, saveTimeout>>

\* the catch block of the debounce callback
SaveCatch(k, e) ==
  IF e.code = "NETWORK_ERROR"
    THEN /\ queue' = Enqueued(queue, saves[k].operation, clock)
         /\ stored' = Persisted(queue')
         /\ clock' = clock + 1
         /\ replays' = Append(replays, [ok |-> 0, failed |-> 0])
         /\ saves' = [saves EXCEPT ![k].state = "resolved",
                                    ![k].indicator = Some("error"),
                                    ![k].handled = Some(e),
                                    ![k].result = Some([queued |-> TRUE])]
    ELSE /\ saves' = [saves EXCEPT ![k].state = "rejected",
                                    ![k].indicator = Some("error"),
                                    ![k].handled = Some(e),
                                    ![k].error = Some(e)]
         /\ UNCHANGED <<queue, stored, clock, replays>>

\* the DB module call of save number k is served by the backend
SaveServed(k) ==
  /\ k \in 1..Len(saves)
  /\ saves[k].state = "running"
  /\ online
  /\ LET reply == RunStore(rows, nextId, SyncUser, saves[k].operation)
     IN /\ rows' = reply[1]
        /\ nextId' = IF reply[1] /= rows /\ saves[k].operation.action = "create"
                       THEN nextId + 1 ELSE nextId
        /\ IF reply[3] = Null
             THEN /\ saves' = [saves EXCEPT ![k].state = "resolved",
                                             ![k].indicator = Some("success"),
                                             ![k].result = reply[2]]
                  /\ UNCHANGED <<queue, stored, clock, replays>>
           ELSE SaveCatch(k, reply[3][1])
  /\ UNCHANGED <<recipeVars, authVars, legacyVars, storeVars, realtimeVars, storageFull, reloads, online, isOnline, isSyncing, drain, drainTimers,
                 saveTimeout>>

\* the DB module call of save number k throws without having written
SaveFails(k, code) ==
  /\ k \in 1..Len(saves)
  /\ saves[k].state = "running"
  /\ SaveCatch(k, Err(code))
  /\ UNCHANGED <<recipeVars, authVars, legacyVars, backendVars, storeVars, realtimeVars, storageFull, reloads, online, isOnline, isSyncing, drain,
                 drainTimers, saveTimeout>>

\* the browser's `online` event: handleOnline
GoOnline ==
  /\ ~online
  /\ drainTimers < MaxTimers
  /\ online' = TRUE
  /\ isOnline' = TRUE
  /\ drainTimers' = drainTimers + 1
  /\ UNCHANGED <<recipeVars, authVars, legacyVars, backendVars, storeVars, realtimeVars, storageFull, reloads, queue, stored, isSyncing, drain,
                 saveTimeout, saves, clock, replays>>

\* the browser's `offline` event: handleOffline
GoOffline ==
  /\ online
  /\ online' = FALSE
  /\ isOnline' = FALSE
  /\ UNCHANGED <<recipeVars, authVars, legacyVars, backendVars, storeVars, realtimeVars, storageFull, reloads, queue, stored, isSyncing, drain,
                 drainTimers, saveTimeout, saves, clock, replays>>

\* mutation: the loop takes the item at the tail
DrainLoop_Last(q) ==
  IF q /= <<>>
    THEN drain' = [drain EXCEPT !.item = Some(q[Len(q)])] /\ UNCHANGED isSyncing
    ELSE /\ drain' = [IdleDrain EXCEPT !.running = drain.running - 1]
         /\ isSyncing' = FALSE

\* mutation: processQueue returns after the first item
DrainLoop_Once(q) ==
  /\ drain' = [IdleDrain EXCEPT !.running = drain.running - 1]
  /\ isSyncing' = FALSE

\* the drain loop after an item has been handled: on to the next await, or
\* to the end of processQueue when the queue is empty
DrainLoop(q) ==
  IF q /= <<>>
    THEN drain' = [drain EXCEPT !.item = Some(q[1])] /\ UNCHANGED isSyncing
    ELSE /\ drain' = [IdleDrain EXCEPT !.running = drain.running - 1]
         /\ isSyncing' = FALSE

\* mutation: processQueue does not test isSyncing
Busy_Never(syncing) == FALSE

\* if (this.isSyncing) return
Busy(syncing) == syncing

\* setTimeout(() => this.processQueue(), 1000) fires: processQueue up to
\* its first await
ProcessQueue ==
  /\ drainTimers > 0
  /\ drainTimers' = drainTimers - 1
  /\ IF Busy(isSyncing)
       THEN drain' = [drain EXCEPT !.refused = TRUE] /\ UNCHANGED isSyncing
     ELSE IF queue = <<>>
       THEN UNCHANGED <<drain, isSyncing>>
     ELSE /\ drain' = [pc |-> "exec", item |-> Some(queue[1]),
                       running |-> drain.running + 1, refused |-> FALSE]
          /\ isSyncing' = TRUE
  /\ UNCHANGED <<recipeVars, authVars, legacyVars, backendVars, storeVars, realtimeVars, storageFull, reloads, online, isOnline, queue,
                 stored, saveTimeout, saves, clock, replays>>

\* the catch block of the drain loop, then the loop again
DrainCatch(item) ==
  /\ queue' = AfterFailure(queue, item)
  /\ stored' = Persisted(queue')
  /\ replays' = [replays EXCEPT ![item.id].failed = @ + 1]
  /\ DrainLoop(queue')

\* executeOperation(item.operation) is served by the backend
DrainServed ==
  /\ drain.pc = "exec"
  /\ online
  /\ LET item == drain.item[1]
         reply == RunStore(rows, nextId, SyncUser, item.operation)
     IN /\ rows' = reply[1]
        /\ nextId' = IF reply[1] /= rows /\ item.operation.action = "create"
                       THEN nextId + 1 ELSE nextId
        /\ IF reply[3] = Null
             THEN /\ queue' = AfterSuccess(queue)
                  /\ stored' = Persisted(queue')
                  /\ replays' = [replays EXCEPT ![item.id].ok = @ + 1]
                  /\ DrainLoop(queue')
           ELSE DrainCatch(item)
  /\ UNCHANGED <<recipeVars, authVars, legacyVars, storeVars, realtimeVars, storageFull, reloads, online, isOnline, drainTimers, saveTimeout, saves,
                 clock>>

\* executeOperation(item.operation) throws without having written
DrainFails(code) ==
  /\ drain.pc = "exec"
  /\ DrainCatch(drain.item[1])
  /\ UNCHANGED <<recipeVars, authVars, legacyVars, backendVars, storeVars, realtimeVars, storageFull, reloads, online, isOnline, drainTimers,
                 saveTimeout, saves, clock>>

NextSync ==
  \/ \E operation \in SyncOps : Save(operation)
  \/ \E k \in 1..MaxSaves : SaveTimerFires(k)
  \/ \E k \in 1..MaxSaves : SaveServed(k)
  \/ \E k \in 1..MaxSaves, code \in SyncFailCodes : SaveFails(k, code)
  \/ GoOnline
  \/ GoOffline
  \/ ProcessQueue
  \/ DrainServed
  \/ \E code \in SyncFailCodes : DrainFails(code)

SpecSync == Init /\ [][NextSync]_vars

(***************************************************************************)
(* Properties of the offline queue and of the debounced save               *)
(***************************************************************************)

\* the ids of the queued items; an id is the item's arrival number
QueueIds == {queue[j].id : j \in 1..Len(queue)}

\* the item whose replay is in flight
InFlight == drain.item[1]

\* this step is a replay of item i that the backend applied
ReplayApplied(i) ==
  /\ drain.pc = "exec"
  /\ InFlight.id = i
  /\ replays'[i].ok = replays[i].ok + 1

Len_C5 == Len(queue) <= MAX_QUEUE_SIZE

\* an enqueue on a full queue leaves the MAX_QUEUE_SIZE latest arrivals, in
\* the order they arrived
OverflowKeepsNewest ==
  (Len(queue) = MAX_QUEUE_SIZE /\ clock' = clock + 1)
    => /\ Len(queue') = MAX_QUEUE_SIZE
       /\ \A j \in 1..MAX_QUEUE_SIZE :
            queue'[j].id = clock - MAX_QUEUE_SIZE + j

\* C5: the queue never holds more than MAX_QUEUE_SIZE entries, and enqueuing
\* onto a full queue drops the oldest entry, so that the queue then holds
\* the most recent MAX_QUEUE_SIZE operations in arrival order.
C5_QueueCap == []Len_C5 /\ [][OverflowKeepsNewest]_vars

\* C6: a queued operation whose replay has succeeded (in particular on the
\* third attempt, after two failures) has been applied remotely exactly
\* once and is no longer in the queue.
C6_ThirdReplay ==
  \A i \in 1..Len(replays) :
    replays[i].ok >= 1 => replays[i].ok = 1 /\ i \notin QueueIds

C6_Witness ==
  \E i \in 1..Len(replays) :
    /\ replays[i].failed = 2
    /\ replays[i].ok = 1
    /\ i \notin QueueIds

\* the create of an ingredient whose name has no surrounding whitespace
SugarOp ==
  Op("create", [name |-> <<"S">>, unit |-> "kg", price_per_unit |-> 50], Null)

\* the only save() made so far was queued offline, the browser is back
\* online, the drain timer has fired and no drain is running
QueuedThenReconnected(operation) ==
  /\ Len(saves) = 1
  /\ saves[1].operation = operation
  /\ saves[1].result = Some([queued |-> TRUE])
  /\ saves[1].called = Null
  /\ online
  /\ drainTimers = 0
  /\ drain.pc = "idle"

\* a row with exactly the fields of a create payload
Stored(data) ==
  \E r \in rows : /\ r.name = data.name
                  /\ r.unit = data.unit
                  /\ r.price_per_unit = data.price_per_unit

\* C7 as stated: after an ingredient was saved offline and the browser has
\* reconnected, the queue is empty and the ingredient exists remotely with
\* exactly the saved field values.
C7_OfflineRoundTrip ==
  QueuedThenReconnected(SugarOp) => queue = <<>> /\ Stored(SugarOp.data)

\* processQueue returns only when the queue is empty
DrainEndsEmpty == (isSyncing /\ ~isSyncing') => queue' = <<>>

\* the name DB.Ingredients.create stores for the names saved here
StoredName(name) == IF name = <<"G", " ">> THEN <<"G">> ELSE name

\* a replayed create that succeeds adds exactly one row: the saved unit and
\* price under the saved name without its surrounding whitespace
ReplayedCreateStores ==
  \A i \in 1..Len(replays) :
    (ReplayApplied(i) /\ InFlight.operation.action = "create")
      => \E r \in rows' :
           /\ rows' = rows \cup {r}
           /\ r \notin rows
           /\ r.name = StoredName(InFlight.operation.data.name)
           /\ r.unit = InFlight.operation.data.unit
           /\ r.price_per_unit = InFlight.operation.data.price_per_unit

\* an item whose replay has failed three times is out of the queue and was
\* never applied
DroppedAfterThree ==
  \A i \in 1..Len(replays) :
    replays[i].failed >= 3
      => replays[i].failed = 3 /\ replays[i].ok = 0 /\ i \notin QueueIds

\* C7, amended: the queue is empty whenever a drain ends; a queued create
\* that one of its at most three replays gets applied adds the ingredient
\* with the saved unit and price and the trimmed name; an item whose three
\* replays fail is dropped from the queue without having been applied.
C7_OfflineReplay ==
  []DroppedAfterThree /\ [][DrainEndsEmpty /\ ReplayedCreateStores]_vars

C7_Witness ==
  /\ QueuedThenReconnected(SugarOp)
  /\ queue = <<>>
  /\ Stored(SugarOp.data)
  /\ replays[1].ok = 1

\* C8: a save() made while the timer of the previous save() is pending
\* supersedes it: the superseded save never calls its DB module, so of
\* three saves made within the debounce window only the last one calls,
\* once and with its own payload.
C8_Debounce ==
  \A k \in 1..Len(saves) :
    /\ (k < Len(saves) /\ saves[k + 1].inWindow)
         => saves[k].called = Null /\ saves[k].state = "superseded"
    /\ saves[k].called \in {Null, Some(saves[k].operation)}
    /\ saves[k].state \in {"running", "rejected"} => saves[k].called /= Null
    /\ (saves[k].state = "resolved" /\ saves[k].result /= Some([queued |-> TRUE]))
         => saves[k].called /= Null

C8_Witness ==
  /\ Len(saves) = 3
  /\ saves[2].inWindow /\ saves[3].inWindow
  /\ saves[1].operation /= saves[3].operation
  /\ saves[2].operation /= saves[3].operation
  /\ saves[1].called = Null /\ saves[2].called = Null
  /\ saves[3].called = Some(saves[3].operation)
  /\ saves[3].state = "resolved"

\* this step is the debounce callback of save number k
Fires(k) == saves[k].state = "armed" /\ saves'[k].state \notin {"armed", "superseded"}

\* C10: a debounce callback that runs while the browser is offline calls no
\* DB module, appends exactly one entry holding the operation to the queue
\* and resolves its promise with {queued: true} in the same step.
C10_OfflineEnqueue ==
  [][\A k \in 1..Len(saves) :
       (Fires(k) /\ ~online)
         => /\ saves'[k].called = Null
            /\ rows' = rows
            /\ saves'[k].state = "resolved"
            /\ saves'[k].result = Some([queued |-> TRUE])
            /\ LET n == Len(queue')
               IN /\ n >= 1
                  /\ queue'[n].operation = saves[k].operation
                  /\ SubSeq(queue', 1, n - 1) \in {queue, Shift(queue)}
                  /\ stored' = Stringify(queue')]_vars

C10_Witness ==
  /\ ~online
  /\ Len(saves) = 1
  /\ saves[1].state = "resolved"
  /\ saves[1].result = Some([queued |-> TRUE])
  /\ saves[1].called = Null
  /\ Len(queue) = 1
  /\ queue[1].operation = saves[1].operation
  /\ rows = {}

(***************************************************************************)
(* Client A resolving conflicts by merge while client B edits (SpecMerge)  *)
(***************************************************************************)
\* the local records a conflict on `remote` is resolved with: an edit of the
\* price alone, and a stale copy of the row with edited name and unit
LocalInputs(remote) ==
  { [price_per_unit |-> 10, name |-> remote.name],
    [id |-> remote.id, version |-> 1, organization_id |-> "org-0002",
     created_by |-> "A", name |-> <<"M">>, unit |-> "g",
     price_per_unit |-> remote.price_per_unit] }

\* the local records a conflict on `remote` is resolved with by use_local
\* and use_remote: an edit of the price alone, and a copy of the row read at
\* version 1 with an edited unit
StaleInputs(remote) ==
  { [price_per_unit |-> 10],
    [id |-> remote.id, version |-> 1,
     organization_id |-> remote.organization_id,
     created_by |-> remote.created_by, name |-> remote.name, unit |-> "g",
     price_per_unit |-> remote.price_per_unit] }

\* mutation: the lock token is the version the client last read
RemoteVersion_Local(localData, remoteData) ==
  IF Has(localData, "version") THEN localData.version ELSE 1

\* resolve(): the version handed to useLocal, remoteData.version
RemoteVersion(localData, remoteData) == remoteData.version

\* resolve('use_local', localData, remoteData, 'ingredients', recordId) ->
\* useLocal(localData, tableName, recordId, remoteData.version), up to the
\* first await of the update it calls
UseLocal(c, localData, remoteData, recordId) ==
  /\ call[c].pc = "idle"
  /\ ncalls[c] < MaxCalls
  /\ LET remoteVersion == RemoteVersion(localData, remoteData)
     IN call' = [call EXCEPT ![c] =
          [UpdateCall(recordId, localData, Some(remoteVersion)) EXCEPT
             !.resolve = Some([strategy |-> "use_local",
                               localData |-> localData,
                               remoteData |-> remoteData])]]
  /\ ncalls' = [ncalls EXCEPT ![c] = @ + 1]
  /\ UNCHANGED <<recipeVars, authVars, legacyVars, syncVars, realtimeVars, rows, nextId>>

\* the ways into useRemote: resolve('use_remote', ...), autoResolve(...),
\* and showConflictUI(...) when window.UI.ConflictUI is missing
RemoteStrategies == {"use_remote", "autoResolve", "showConflictUI"}

\* mutation: the local record is returned
UseRemoteResult_Local(localData, remoteData) ==
  [data |-> localData, error |-> Null]

\* useRemote(remoteData): { data: remoteData, error: null }
UseRemoteResult(localData, remoteData) ==
  [data |-> remoteData, error |-> Null]

\* resolve('use_remote', ...), autoResolve or the fallback of showConflictUI:
\* useRemote returns at once
UseRemote(c, strategy, localData, remoteData) ==
  /\ call[c].pc = "idle"
  /\ ncalls[c] < MaxCalls
  /\ call' = [call EXCEPT ![c] =
       [IdleCall EXCEPT
          !.pc = "returned",
          !.result = Some(UseRemoteResult(localData, remoteData)),
          !.resolve = Some([strategy |-> strategy, localData |-> localData,
                            remoteData |-> remoteData])]]
  /\ ncalls' = [ncalls EXCEPT ![c] = @ + 1]
  /\ UNCHANGED <<recipeVars, authVars, legacyVars, syncVars, realtimeVars, rows, nextId>>

NextMerge ==
  \/ \E data \in CreateInputs :
        ncalls["B"] < MaxDupCalls /\ IngredientsCreate("B", data)
  \/ \E id \in 1..MaxRows :
        ncalls["B"] < MaxDupCalls
          /\ IngredientsUpdate("B", id, [price_per_unit |-> 12], Null)
  \/ \E remote \in rows : \E localData \in LocalInputs(remote) :
        ncalls["A"] < MaxDupCalls
          /\ MergeData("A", localData, remote, remote.id)
  \/ \E remote \in rows : \E localData \in StaleInputs(remote) :
        ncalls["A"] < MaxDupCalls
          /\ UseLocal("A", localData, remote, remote.id)
  \/ \E remote \in rows : \E localData \in StaleInputs(remote) :
        \E strategy \in RemoteStrategies :
          ncalls["A"] < MaxDupCalls
            /\ UseRemote("A", strategy, localData, remote)
  \/ \E c \in Clients : CheckDuplicateReply(c)
  \/ \E served \in BOOLEAN : VersionRead("A", served)
  \/ \E c \in Clients : Write(c)
  \/ Wake("A")
  \/ \E c \in Clients : Settle(c)

SpecMerge == Init /\ [][NextMerge]_vars

\* the calls made by mergeData
MergeCalls == {c \in Clients : call[c].merge /= Null}

\* key k of the merge m comes from the local record
FromLocal(m, k) ==
  /\ k \notin MetadataKeys
  /\ Has(m.localData, k)
  /\ (Has(m.remoteData, k) => m.localData[k] /= m.remoteData[k])

\* C9: the record a merge passes to update holds every field of the remote
\* snapshot; a field outside the metadata that local holds with a different
\* value has local's value and every other field has remote's; the update
\* is called with remote.version as its lock token.  For local {price 10,
\* name X} and remote {price p, name X, version v} the record has price 10,
\* name X, and the lock token is v.
C9_Merge ==
  \A c \in MergeCalls :
    LET m == call[c].merge[1]
        localData == m.localData
        remoteData == m.remoteData
    IN /\ DOMAIN remoteData \subseteq DOMAIN m.merged
       /\ \A k \in DOMAIN m.merged :
            IF FromLocal(m, k) THEN m.merged[k] = localData[k]
            ELSE Has(remoteData, k) /\ m.merged[k] = remoteData[k]
       /\ \A k \in DOMAIN localData : FromLocal(m, k) => Has(m.merged, k)
       /\ call[c].expectedVersion = Some(remoteData.version)
       /\ call[c].id = Some(remoteData.id)
       /\ (localData = [price_per_unit |-> 10, name |-> remoteData.name]
             => /\ m.merged.price_per_unit = 10
                /\ m.merged.name = remoteData.name
                /\ m.merged.unit = remoteData.unit
                /\ m.merged.version = remoteData.version)
       /\ call[c].pc = "returned"
            => /\ call[c].result[1].name = m.merged.name
               /\ call[c].result[1].unit = m.merged.unit
               /\ call[c].result[1].price_per_unit = m.merged.price_per_unit
               /\ call[c].result[1].version >= remoteData.version + 1
               /\ call[c].result[1].created_by = remoteData.created_by
               /\ call[c].result[1].organization_id = remoteData.organization_id

\* a merge of the price edit over a remote row at version 2 has been written
C9_Witness ==
  \E c \in MergeCalls :
    LET m == call[c].merge[1]
    IN /\ m.localData = [price_per_unit |-> 10, name |-> m.remoteData.name]
       /\ m.remoteData.price_per_unit = 12
       /\ m.remoteData.version = 2
       /\ call[c].expectedVersion = Some(2)
       /\ call[c].pc = "returned"
       /\ call[c].result[1].price_per_unit = 10
       /\ call[c].result[1].version = 3

(***************************************************************************)
(* Version conflicts and the retry loop (SpecRetry)                        *)
(***************************************************************************)
\* C11: a version conflict detected by update reaches the caller after a
\* single attempt: the call is thrown with that error at attempt 1, nothing
\* has been slept and the version is not read again.
C11_ConflictNotRetried ==
  \A c \in Clients :
    LET cl == call[c]
    IN (cl.errs /= <<>> /\ cl.errs[1].code = "VERSION_CONFLICT")
       => /\ cl.pc = "thrown"
          /\ cl.attempt = 1
          /\ Len(cl.errs) = 1
          /\ cl.slept = <<>>
          /\ cl.error = Some(cl.errs[1])

(***************************************************************************)
(* The queue with clearQueue, a full local store and page reloads          *)
(* (SpecQueue)                                                             *)
(***************************************************************************)
\* Sync.OfflineQueue.clearQueue()
ClearQueue ==
  /\ queue' = <<>>
  /\ stored' = Persisted(queue')
  /\ UNCHANGED <<recipeVars, authVars, legacyVars, backendVars, storeVars, realtimeVars, storageFull, reloads, online, isOnline,
                 isSyncing, drain, drainTimers, saveTimeout, saves, clock,
                 replays>>

\* the local store runs out of quota, or gets room again
StorageQuota(full) ==
  /\ storageFull /= full
  /\ storageFull' = full
  /\ UNCHANGED <<recipeVars, authVars, legacyVars, backendVars, storeVars, realtimeVars, reloads, online, isOnline, queue,
                 stored, isSyncing, drain, drainTimers, saveTimeout, saves,
                 clock, replays>>

\* the queue loadQueue() leaves: getItem returns null when nothing was stored
Loaded(text) == IF text = <<>> THEN <<>> ELSE ParseJson(text)

\* the page is reloaded: the scripts run again and Sync.OfflineQueue.init()
\* calls loadQueue(); timers and promises of the old page are gone, and a
\* request it had in flight counts as not delivered
Reload ==
  /\ reloads < MaxReloads
  /\ reloads' = reloads + 1
  /\ queue' = Loaded(stored)
  /\ isOnline' = online
  /\ isSyncing' = FALSE
  /\ drain' = IdleDrain
  /\ drainTimers' = 0
  /\ saveTimeout' = Null
  /\ saves' = [j \in 1..Len(saves) |->
                 IF saves[j].state \in {"armed", "running"}
                   THEN [saves[j] EXCEPT !.state = "lost"]
                 ELSE saves[j]]
  /\ UNCHANGED <<recipeVars, authVars, legacyVars, backendVars, storeVars, realtimeVars, storageFull, online, stored, clock,
                 replays>>

\* the operations saved in this specification
QueueOps ==
  { Op("create", [name |-> <<"S">>, unit |-> "kg", price_per_unit |-> 50], Null),
    Op("update", [price_per_unit |-> 10], Some(1)) }

NextQueue ==
  \/ \E operation \in QueueOps : Len(saves) < MaxQueueSaves /\ Save(operation)
  \/ \E k \in 1..MaxQueueSaves : SaveTimerFires(k)
  \/ \E k \in 1..MaxQueueSaves : SaveServed(k)
  \/ \E k \in 1..MaxQueueSaves, code \in SyncFailCodes : SaveFails(k, code)
  \/ GoOnline
  \/ GoOffline
  \/ ProcessQueue
  \/ DrainServed
  \/ \E code \in SyncFailCodes : DrainFails(code)
  \/ ClearQueue
  \/ \E full \in BOOLEAN : StorageQuota(full)
  \/ Reload

SpecQueue == Init /\ [][NextQueue]_vars

(***************************************************************************)
(* Properties of the drain (SpecSync)                                      *)
(***************************************************************************)
\* this step is a replay of item i that failed
ReplayFailed(i) ==
  /\ drain.pc = "exec"
  /\ InFlight.id = i
  /\ replays'[i].failed = replays[i].failed + 1

\* an item's attempt counter is the number of its failed replays, which
\* never exceeds 3; after the third the item is out of the queue
FailuresCounted ==
  \A i \in 1..Len(replays) :
    /\ replays[i].failed <= 3
    /\ replays[i].failed = 3 => i \notin QueueIds
    /\ \A j \in 1..Len(queue) :
         queue[j].id = i => queue[j].attempts = replays[i].failed

\* the first and the second failed replay move the item to the tail
MovedToTail ==
  \A i \in 1..Len(replays) :
    (ReplayFailed(i) /\ replays'[i].failed < 3)
      => /\ queue' /= <<>>
         /\ queue'[Len(queue')].id = i
         /\ queue'[Len(queue')].attempts = replays'[i].failed

\* an item leaves the queue by its successful replay, by its third failed
\* replay, or as the head of a full queue on which an operation is enqueued
\* (clearQueue is not called in this specification)
OnlyRemoved ==
  \A i \in QueueIds :
    i \notin {queue'[j].id : j \in 1..Len(queue')}
      => \/ ReplayApplied(i)
         \/ ReplayFailed(i) /\ replays'[i].failed = 3
         \/ /\ Len(queue) = MAX_QUEUE_SIZE
            /\ clock' = clock + 1
            /\ queue[1].id = i

\* C12: a queued operation whose replay always fails is replayed 3 times,
\* moved to the tail after the first and second failure and removed after
\* the third; an operation is only ever removed from the queue by one of
\* the listed causes.
C12_DropAfterThree ==
  []FailuresCounted /\ [][MovedToTail /\ OnlyRemoved]_vars

C12_FailsThrice == []FailuresCounted /\ [][MovedToTail]_vars

\* the isSyncing flag is set exactly while one processQueue is in its loop
OneDrain ==
  /\ drain.running <= 1
  /\ isSyncing <=> drain.running = 1
  /\ isSyncing <=> drain.pc = "exec"

\* a processQueue call made while isSyncing is set changes nothing
RefusedWhileSyncing ==
  (drainTimers' = drainTimers - 1 /\ isSyncing)
    => /\ drain'.pc = drain.pc /\ drain'.item = drain.item
       /\ drain'.running = drain.running
       /\ UNCHANGED <<queue, stored, isSyncing, rows, replays>>

\* C13: at most one drain is in progress at any time, and a processQueue
\* call made while isSyncing is true returns without executing, reordering
\* or removing any queued operation.
C13_OneDrain == []OneDrain /\ [][RefusedWhileSyncing]_vars

\* a drain that a second processQueue call has run into is still replaying
\* the head of a queue of two
C13_Witness ==
  /\ isSyncing
  /\ drain.refused
  /\ drain.running = 1
  /\ Len(queue) = 2
  /\ drain.item = Some(queue[1])

\* the item a drain goes on with is the head of the queue
PicksHead ==
  (drain'.pc = "exec" /\ (drain.pc = "idle" \/ drain'.item /= drain.item))
    => queue' /= <<>> /\ drain'.item = Some(queue'[1])

\* as long as no replay has failed, no operation is applied before one
\* that was enqueued earlier
AppliedInOrder ==
  \A i \in 1..Len(replays) :
    (ReplayApplied(i) /\ \A j \in 1..Len(replays) : replays'[j].failed = 0)
      => \A j \in 1..Len(replays) : j > i => replays[j].ok = 0

\* C14: the drain replays the head of the queue; a failed replay (fewer
\* than 3 failures) puts the operation behind all operations queued at that
\* moment; as long as no replay fails the backend applies the operations in
\* the order they were enqueued.
C14_FifoReplay == [][PicksHead /\ MovedToTail /\ AppliedInOrder]_vars

\* the create and the update queued behind it were both applied, the
\* update last, and no replay failed
C14_Witness ==
  /\ Len(replays) = 2
  /\ replays[1] = [ok |-> 1, failed |-> 0]
  /\ replays[2] = [ok |-> 1, failed |-> 0]
  /\ \E r \in rows : r.id = 1 /\ r.price_per_unit = 10 /\ r.version = 2

(***************************************************************************)
(* Durability of the queue (SpecQueue)                                     *)
(***************************************************************************)
\* this step changes the in-memory queue other than by loading it
Mutates == queue' /= queue /\ reloads' = reloads

\* the stored copy is the text of the queue, and loading it gives the queue
\* back: same operations, same order, same attempt counters
StoredIsQueue == stored' = Stringify(queue') /\ Loaded(stored') = queue'

\* C15 as stated: after every mutation of the queue the copy in the local
\* store equals the in-memory queue, so that loadQueue restores it.
C15_Durable == [][Mutates => StoredIsQueue]_vars

\* C15, amended: after every mutation of the queue made while the local
\* store accepts the write, the stored copy equals the in-memory queue and
\* loadQueue restores it; when setItem throws, the stored copy keeps its
\* previous content; a page reload sets the queue to what loadQueue reads
\* from the stored copy.
C15_DurableUnlessFull ==
  [][/\ (Mutates /\ ~storageFull) => StoredIsQueue
     /\ (Mutates /\ storageFull) => stored' = stored
     /\ reloads' /= reloads => queue' = Loaded(stored) /\ stored' = stored]_vars

\* a reload has restored two operations, the second with a failed replay
C15_Witness ==
  /\ reloads = 1
  /\ drain.pc = "idle" /\ ~isSyncing
  /\ Len(queue) = 2
  /\ queue[1].attempts = 0
  /\ queue[2].attempts = 1
  /\ queue[2].id < queue[1].id
  /\ stored = Stringify(queue)

(***************************************************************************)
(* Conflict resolution strategies (SpecMerge)                              *)
(***************************************************************************)
\* the calls made through the strategy `strategy`
ResolvedBy(strategy) ==
  {c \in Clients : /\ call[c].resolve /= Null
                   /\ call[c].resolve[1].strategy = strategy}

\* C16: resolving with use_local calls update once, on the record, with the
\* local data as it is and with the version of the remote snapshot as the
\* lock token.
C16_UseLocal ==
  \A c \in ResolvedBy("use_local") :
    LET r == call[c].resolve[1]
    IN /\ call[c].action = "update"
       /\ call[c].id = Some(r.remoteData.id)
       /\ call[c].data = r.localData
       /\ call[c].expectedVersion = Some(r.remoteData.version)
       /\ call[c].merge = Null

\* use_local of a copy read at version 1 over a remote row at version 2 has
\* been written
C16_Witness ==
  \E c \in ResolvedBy("use_local") :
    LET r == call[c].resolve[1]
    IN /\ Has(r.localData, "version")
       /\ r.localData.version = 1
       /\ r.remoteData.version = 2
       /\ call[c].expectedVersion = Some(2)
       /\ call[c].pc = "returned"
       /\ call[c].result[1].unit = "g"
       /\ call[c].result[1].version = 3

\* C17: resolving with use_remote, auto-resolving or showing the conflict
\* UI without an interactive UI returns the remote snapshot unchanged and
\* sends nothing to the backend, whatever the local data is: the call is
\* returned at once, it is no create, update or delete, and the step leaves
\* the table as it was.
C17_UseRemote ==
  /\ [](\A c \in Clients :
          (call[c].resolve /= Null
             /\ call[c].resolve[1].strategy \in RemoteStrategies)
            => /\ call[c].pc = "returned"
               /\ call[c].action = "none"
               /\ call[c].attempt = 0
               /\ call[c].result =
                    Some([data |-> call[c].resolve[1].remoteData,
                          error |-> Null]))
  /\ [][\A c \in Clients :
          (call'[c] /= call[c]
             /\ call'[c].resolve /= Null
             /\ call'[c].resolve[1].strategy \in RemoteStrategies)
            => rows' = rows /\ nextId' = nextId]_vars

C17_Witness ==
  \E c \in ResolvedBy("autoResolve") :
    LET r == call[c].resolve[1]
    IN /\ Has(r.localData, "unit")
       /\ r.localData.unit /= r.remoteData.unit
       /\ r.remoteData.version = 2
       /\ call[c].result[1].data = r.remoteData
       /\ r.remoteData \in rows

\* the calls made by resolving with use_local or merge
WritingResolutions == ResolvedBy("use_local") \cup MergeCalls

\* C18: when the update issued by use_local or merge hits a version
\* conflict, the call fails with that error at once: nothing is retried, and
\* the stored record stays as the concurrent writer wrote it.
C18_SecondConflict ==
  \A c \in WritingResolutions :
    LET cl == call[c]
    IN (cl.errs /= <<>> /\ cl.errs[1].code = "VERSION_CONFLICT")
       => /\ cl.pc = "thrown"
          /\ cl.error = Some(cl.errs[1])
          /\ cl.attempt = 1
          /\ cl.slept = <<>>

\* a resolution that has hit a version conflict never writes
C18_NeverWrites ==
  \A c \in WritingResolutions :
    (call[c].errs /= <<>> /\ call[c].errs[1].code = "VERSION_CONFLICT")
      => call[c].pc /= "returned"

(***************************************************************************)
(* Sync.Realtime: callbacks and change notifications (SpecRealtime)        *)
(***************************************************************************)
\* The callbacks handed to on(), named by what they do when invoked:
\* "plain" returns, "throwing" throws, "once" calls the unsubscribe function
\* on() returned for it.
Callbacks == {"plain", "throwing", "once"}

\* window.Auth.currentUser.id
CurrentUser == "A"

\* the payloads of postgres_changes: an insert and a delete made by another
\* user, an update made by the current one
Payloads ==
  { [eventType |-> "INSERT", new |-> Some([id |-> 1, created_by |-> "B"]),
     old |-> Null],
    [eventType |-> "UPDATE", new |-> Some([id |-> 1, created_by |-> "A"]),
     old |-> Some([id |-> 1, created_by |-> "A"])],
    [eventType |-> "DELETE", new |-> Null,
     old |-> Some([id |-> 1, created_by |-> "B"])] }

\* mutation: every registration of the callback is removed
Spliced_All(arr, callback) == SelectSeq(arr, LAMBDA x : x /= callback)

\* the array after index = indexOf(callback); if (index > -1) splice(index, 1)
Spliced(arr, callback) ==
  IF \E j \in 1..Len(arr) : arr[j] = callback
    THEN LET index == CHOOSE j \in 1..Len(arr) :
                        /\ arr[j] = callback
                        /\ \A i \in 1..(j - 1) : arr[i] /= callback
         IN SubSeq(arr, 1, index - 1) \o SubSeq(arr, index + 1, Len(arr))
  ELSE arr

\* callback(eventType, newRecord, oldRecord)
Invocation(callback, payload) ==
  [callback |-> callback, eventType |-> payload.eventType,
   newRecord |-> payload.new, oldRecord |-> payload.old]

\* callbacks.forEach(callback => { try { callback(...) } catch ... }) from
\* index k on: forEach reads the length once, visits the indices below it
\* that the array still has, and reads each element when it gets there;
\* <<the array afterwards, the invocations made>>
RECURSIVE ForEach(_, _, _, _, _)
ForEach(arr, k, len, payload, calls) ==
  IF k > len THEN <<arr, calls>>
  ELSE IF k > Len(arr) THEN ForEach(arr, k + 1, len, payload, calls)
  ELSE LET callback == arr[k]
           after == IF callback = "once" THEN Spliced(arr, callback) ELSE arr
       IN ForEach(after, k + 1, len, payload,
                  Append(calls, Invocation(callback, payload)))

\* isOwnChange of handleUpdate
IsOwnChange(payload) ==
  \/ payload.new /= Null /\ payload.new[1].created_by = CurrentUser
  \/ payload.old /= Null /\ payload.old[1].created_by = CurrentUser

\* getUserEmail(record)
GetUserEmail(record) ==
  IF record = Null THEN "Someone"
  ELSE IF Has(record[1], "created_by_email") THEN record[1].created_by_email
  ELSE IF Has(record[1], "user_email") THEN record[1].user_email
  ELSE "Another user"

\* the toast handleUpdate shows for the notification, if it shows one
ToastMessage(tableName, payload) ==
  IF IsOwnChange(payload) THEN Null
  ELSE Some([userName |->
               GetUserEmail(IF payload.new /= Null THEN payload.new
                            ELSE payload.old),
             action |-> CASE payload.eventType = "INSERT" -> "added"
                          [] payload.eventType = "UPDATE" -> "updated"
                          [] payload.eventType = "DELETE" -> "deleted from",
             tableName |-> tableName])

\* the order in which init() subscribes the tables
TableOrder == <<"ingredients", "recipes">>

\* what the status callback of a channel is told
Statuses == {"SUBSCRIBED", "CHANNEL_ERROR", "TIMED_OUT"}

\* the state of a channel after its status callback was told status
StateAfter(status) ==
  CASE status = "SUBSCRIBED" -> "joined"
    [] status = "CHANNEL_ERROR" -> "errored"
    [] status = "TIMED_OUT" -> "timedOut"

\* this.channels.set(tableName, channel) for the tables of the sequence ts,
\* each with a new channel: <<the Map, the channels it no longer holds>>
RECURSIVE Subscribe(_, _, _)
Subscribe(chs, orph, ts) ==
  IF ts = <<>> THEN <<chs, orph>>
  ELSE LET t == Head(ts)
           left == IF chs[t] = Null THEN orph
                   ELSE Append(orph, [table |-> t, state |-> chs[t][1]])
       IN Subscribe([chs EXCEPT ![t] = Some("joining")], left, Tail(ts))

\* Sync.Realtime.init()
RealtimeInit ==
  /\ ~isInitialized
  /\ Len(orphans) + Len(SelectSeq(TableOrder, LAMBDA t : channels[t] /= Null))
       <= MaxOrphans
  /\ LET opened == Subscribe(channels, orphans, TableOrder)
     IN /\ channels' = opened[1]
        /\ orphans' = opened[2]
  /\ isInitialized' = TRUE
  /\ last' = Null
  /\ UNCHANGED <<recipeVars, authVars, legacyVars, backendVars, storeVars, syncVars, callbacks, handles,
                 unsubscribed, retryTimers>>

\* mutation: a hard channel error arms the retry timer as a timeout does
ChannelStatus_RetryOnError(tableName, status) ==
  /\ channels[tableName] = Some("joining")
  /\ status /= "SUBSCRIBED" => retryTimers[tableName] < MaxRetryTimers
  /\ channels' = [channels EXCEPT ![tableName] = Some(StateAfter(status))]
  /\ retryTimers' = IF status /= "SUBSCRIBED"
                      THEN [retryTimers EXCEPT ![tableName] = @ + 1]
                    ELSE retryTimers
  /\ last' = Null
  /\ UNCHANGED <<recipeVars, authVars, legacyVars, backendVars, storeVars, syncVars,
                 callbacks, isInitialized, handles, unsubscribed, orphans>>

\* the status callback of the channel the Map holds for tableName
ChannelStatus(tableName, status) ==
  /\ channels[tableName] = Some("joining")
  /\ status = "TIMED_OUT" => retryTimers[tableName] < MaxRetryTimers
  /\ channels' = [channels EXCEPT ![tableName] = Some(StateAfter(status))]
  /\ retryTimers' = IF status = "TIMED_OUT"
                      THEN [retryTimers EXCEPT ![tableName] = @ + 1]
                    ELSE retryTimers
  /\ last' = Null
  /\ UNCHANGED <<recipeVars, authVars, legacyVars, backendVars, storeVars, syncVars, callbacks, isInitialized,
                 handles, unsubscribed, orphans>>

\* the status callback of a channel the Map no longer holds
OrphanStatus(k, status) ==
  /\ k \in 1..Len(orphans)
  /\ orphans[k].state = "joining"
  /\ status = "TIMED_OUT" => retryTimers[orphans[k].table] < MaxRetryTimers
  /\ orphans' = [orphans EXCEPT ![k].state = StateAfter(status)]
  /\ retryTimers' = IF status = "TIMED_OUT"
                      THEN [retryTimers EXCEPT ![orphans[k].table] = @ + 1]
                    ELSE retryTimers
  /\ last' = Null
  /\ UNCHANGED <<recipeVars, authVars, legacyVars, backendVars, storeVars, syncVars, callbacks, isInitialized,
                 handles, unsubscribed, channels>>

\* the timer set on TIMED_OUT fires: this.subscribe(tableName)
RetryFires(tableName) ==
  /\ retryTimers[tableName] > 0
  /\ Len(orphans) < MaxOrphans
  /\ retryTimers' = [retryTimers EXCEPT ![tableName] = @ - 1]
  /\ LET opened == Subscribe(channels, orphans, <<tableName>>)
     IN /\ channels' = opened[1]
        /\ orphans' = opened[2]
  /\ last' = Null
  /\ UNCHANGED <<recipeVars, authVars, legacyVars, backendVars, storeVars, syncVars, callbacks, isInitialized,
                 handles, unsubscribed>>

\* a channel opened for tableName is joined: it delivers changes
Delivering(tableName) ==
  \/ channels[tableName] = Some("joined")
  \/ \E k \in 1..Len(orphans) :
       orphans[k] = [table |-> tableName, state |-> "joined"]

\* Sync.Realtime.on(tableName, callback)
On(tableName, callback) ==
  /\ Len(callbacks[tableName]) < MaxCallbacks
  /\ callbacks' = [callbacks EXCEPT ![tableName] = Append(@, callback)]
  /\ handles' = handles \cup {<<tableName, callback>>}
  /\ unsubscribed' = unsubscribed \ {<<tableName, callback>>}
  /\ last' = Null
  /\ UNCHANGED <<recipeVars, authVars, legacyVars, backendVars, storeVars, syncVars, isInitialized, channels,
                 orphans, retryTimers>>

\* a call of the function on(tableName, callback) returned
Unsubscribe(tableName, callback) ==
  /\ <<tableName, callback>> \in handles
  /\ callbacks' = [callbacks EXCEPT ![tableName] = Spliced(@, callback)]
  /\ unsubscribed' = unsubscribed \cup {<<tableName, callback>>}
  /\ last' = Null
  /\ UNCHANGED <<recipeVars, authVars, legacyVars, backendVars, storeVars, syncVars, isInitialized, handles,
                 channels, orphans, retryTimers>>

\* a channel of tableName delivers a change: handleUpdate(tableName, payload)
HandleUpdate(tableName, payload) ==
  /\ Delivering(tableName)
  /\ LET registered == callbacks[tableName]
         done == ForEach(registered, 1, Len(registered), payload, <<>>)
     IN /\ callbacks' = [callbacks EXCEPT ![tableName] = done[1]]
        /\ unsubscribed' =
             unsubscribed \cup
               {<<tableName, "once">> : j \in {i \in 1..Len(done[2]) :
                                                done[2][i].callback = "once"}}
        /\ last' = Some([tableName |-> tableName, payload |-> payload,
                         toast |-> ~IsOwnChange(payload),
                         message |-> ToastMessage(tableName, payload),
                         registered |-> registered,
                         unsubscribedBefore |->
                           {h[2] : h \in {x \in unsubscribed :
                                            x[1] = tableName}},
                         calls |-> done[2]])
  /\ UNCHANGED <<recipeVars, authVars, legacyVars, backendVars, storeVars, syncVars, isInitialized, handles,
                 channels, orphans, retryTimers>>

\* the body of Sync.Realtime.cleanup(): the channels of the Map are
\* unsubscribed, the Maps cleared
RealtimeCleanup ==
  /\ channels' = [t \in Tables |-> Null]
  /\ callbacks' = [t \in Tables |-> <<>>]
  /\ isInitialized' = FALSE
  /\ last' = Null
  /\ UNCHANGED <<handles, unsubscribed, orphans, retryTimers>>

\* Sync.Realtime.cleanup()
Cleanup ==
  /\ RealtimeCleanup
  /\ UNCHANGED <<recipeVars, authVars, legacyVars, backendVars, storeVars, syncVars>>

NextRealtime ==
  \/ RealtimeInit
  \/ \E t \in Tables : ChannelStatus(t, "SUBSCRIBED")
  \/ \E callback \in Callbacks : On("ingredients", callback)
  \/ callbacks["recipes"] = <<>> /\ On("recipes", "plain")
  \/ \E t \in Tables, callback \in Callbacks : Unsubscribe(t, callback)
  \/ \E t \in Tables, payload \in Payloads : HandleUpdate(t, payload)
  \/ Cleanup

SpecRealtime == Init /\ [][NextRealtime]_vars

(***************************************************************************)
(* Properties of the fan-out and of unsubscribe (SpecRealtime)             *)
(***************************************************************************)
\* the invocations that call every callback of arr once, in order
OncePerCallback(arr, payload) ==
  [j \in 1..Len(arr) |-> Invocation(arr[j], payload)]

\* C19: for every change notification, every callback registered for the
\* table at that moment is invoked exactly once with (event type, new
\* record, old record), whoever made the change and whatever the callbacks
\* do (throw, unsubscribe).
C19_FanOut ==
  last /= Null
    => last[1].calls = OncePerCallback(last[1].registered, last[1].payload)

\* the callbacks an array holds, and how often it holds one
Registered(arr) == {arr[j] : j \in 1..Len(arr)}

Count(arr, callback) == Cardinality({j \in 1..Len(arr) : arr[j] = callback})

RemovesOne ==
  (/\ callbacks' /= callbacks
   /\ \E t \in Tables, callback \in Callbacks : Unsubscribe(t, callback))
    => \E t \in Tables : \E i \in 1..Len(callbacks[t]) :
         /\ \A j \in 1..(i - 1) : callbacks[t][j] /= callbacks[t][i]
         /\ callbacks' =
              [callbacks EXCEPT ![t] =
                 [j \in 1..(Len(callbacks[t]) - 1) |->
                    IF j < i THEN callbacks[t][j] ELSE callbacks[t][j + 1]]]

\* the first call of an unsubscribe function removes one registration of
\* its callback; the callback is gone if that was its only one
FirstCallRemoves ==
  \A t \in Tables, callback \in Callbacks :
    (/\ <<t, callback>> \notin unsubscribed
     /\ <<t, callback>> \in unsubscribed'
     /\ last' = Null)
      => /\ Count(callbacks[t], callback) >= 1
           => Count(callbacks'[t], callback) = Count(callbacks[t], callback) - 1
         /\ Count(callbacks[t], callback) = 1
           => callback \notin Registered(callbacks'[t])

NextChannels ==
  \/ RealtimeInit
  \/ \E t \in Tables, status \in Statuses : ChannelStatus(t, status)
  \/ \E k \in 1..MaxOrphans, status \in Statuses : OrphanStatus(k, status)
  \/ \E t \in Tables : RetryFires(t)
  \/ On("ingredients", "plain")
  \/ Unsubscribe("ingredients", "plain")
  \/ \E t \in Tables : \E payload \in {p \in Payloads : p.eventType = "INSERT"} :
       HandleUpdate(t, payload)
  \/ Cleanup

SpecChannels == Init /\ [][NextChannels]_vars

\* init() opens one channel for every table and puts it into the Map
InitOpensOnePerTable ==
  [][(~isInitialized /\ isInitialized')
       => /\ \A t \in Tables : channels'[t] = Some("joining")
          /\ Len(orphans') =
               Len(orphans) + Cardinality({t \in Tables : channels[t] /= Null})]_vars

\* C21: while the listener is not initialized (before init() and after
\* cleanup()) no channel it opened is live: none is in the Map, none was
\* left without being unsubscribed, none is opened by a retry timer, and
\* no callback is invoked.
C21_Teardown ==
  ~isInitialized
    => /\ \A t \in Tables : channels[t] = Null
       /\ orphans = <<>>
       /\ last /= Null => last[1].calls = <<>>

(***************************************************************************)
(* DB.Base called directly, next to another workspace (SpecScope)          *)
(***************************************************************************)
\* a workspace other than DEFAULT_ORG_ID, and a user of it
OtherOrg == "org-0002"

OtherUser == "X"

\* payloads of DB.Base.create: one names another workspace and another user
BaseCreateInputs ==
  {[name |-> <<"S">>, unit |-> "kg", price_per_unit |-> 50],
   [name |-> <<"G">>, unit |-> "kg", price_per_unit |-> 50,
    organization_id |-> OtherOrg, created_by |-> OtherUser]}

\* DB.Base.create(tableName, data), up to its first request
BaseCreate(c, data) ==
  /\ call[c].pc = "idle"
  /\ ncalls[c] < MaxCalls
  /\ call' = [call EXCEPT ![c] =
       [IdleCall EXCEPT !.pc = "write", !.action = "create", !.data = data,
                        !.attempt = 1]]
  /\ ncalls' = [ncalls EXCEPT ![c] = @ + 1]
  /\ UNCHANGED <<recipeVars, authVars, legacyVars, syncVars, realtimeVars, rows, nextId>>

\* DB.Base.getById(tableName, id), up to its first request
BaseGetById(c, id) ==
  /\ call[c].pc = "idle"
  /\ ncalls[c] < MaxCalls
  /\ call' = [call EXCEPT ![c] =
       [IdleCall EXCEPT !.pc = "write", !.action = "get", !.id = Some(id),
                        !.attempt = 1]]
  /\ ncalls' = [ncalls EXCEPT ![c] = @ + 1]
  /\ UNCHANGED <<recipeVars, authVars, legacyVars, syncVars, realtimeVars, rows, nextId>>

\* DB.Base.list(tableName), up to its first request
BaseList(c) ==
  /\ call[c].pc = "idle"
  /\ ncalls[c] < MaxCalls
  /\ call' = [call EXCEPT ![c] =
       [IdleCall EXCEPT !.pc = "write", !.action = "list", !.attempt = 1]]
  /\ ncalls' = [ncalls EXCEPT ![c] = @ + 1]
  /\ UNCHANGED <<recipeVars, authVars, legacyVars, syncVars, realtimeVars, rows, nextId>>

\* a user of the other workspace stores a row in the same table
ForeignInsert ==
  /\ nextId <= MaxRows
  /\ \A r \in rows : r.organization_id = DEFAULT_ORG_ID
  /\ rows' = rows \cup {[id |-> nextId, organization_id |-> OtherOrg,
                         created_by |-> OtherUser, name |-> <<"S">>,
                         unit |-> "kg", price_per_unit |-> 50, version |-> 1]}
  /\ nextId' = nextId + 1
  /\ UNCHANGED <<recipeVars, authVars, legacyVars, syncVars, realtimeVars, call, ncalls>>

NextScope ==
  \/ ForeignInsert
  \/ \E data \in BaseCreateInputs : BaseCreate("A", data)
  \/ \E id \in 1..MaxRows : BaseGetById("A", id)
  \/ BaseList("A")
  \/ \E id \in 1..MaxRows, u \in {[price_per_unit |-> 10], [name |-> <<"M">>]} :
       IngredientsUpdate("A", id, u, Null)
  \/ \E id \in 1..MaxRows : IngredientsDelete("A", id)
  \/ CheckDuplicateReply("A")
  \/ Write("A")
  \/ WriteFails("A", "")
  \/ Wake("A")
  \/ Settle("A")

SpecScope == Init /\ [][NextScope]_vars

\* what a read returns belongs to the workspace
ReadsScoped ==
  \A c \in Clients :
    call[c].pc = "returned"
      => /\ call[c].action = "get"
           => /\ call[c].result[1].organization_id = DEFAULT_ORG_ID
              /\ call[c].result[1].id = call[c].id[1]
         /\ call[c].action = "list"
           => call[c].result[1] =
                {r \in rows : r.organization_id = DEFAULT_ORG_ID}

\* no call changes or removes a row of another workspace, and the row a
\* create stores is stamped with the workspace and the caller
WritesScoped ==
  /\ \A r \in rows : r.organization_id /= DEFAULT_ORG_ID => r \in rows'
  /\ \A c \in Clients :
       (/\ call[c].action = "create"
        /\ call[c].pc = "write"
        /\ call'[c].pc = "returned")
         => /\ rows' = rows \cup {call'[c].result[1]}
            /\ call'[c].result[1].organization_id = DEFAULT_ORG_ID
            /\ call'[c].result[1].created_by = UserOf(c)

\* C22: every read, list, update and delete of DB.Base is filtered by the
\* workspace identifier, and every record DB.Base creates carries the
\* workspace identifier and the current user's id, whatever the payload
\* says for those fields.
C22_WorkspaceScoping == []ReadsScoped /\ [][WritesScoped]_vars

\* a create whose payload named another workspace and user has returned
\* while a row of the other workspace is in the table
C22_Witness ==
  /\ \E r \in rows : r.organization_id = OtherOrg
  /\ call["A"].pc = "returned"
  /\ call["A"].action = "create"
  /\ Has(call["A"].data, "organization_id")
  /\ call["A"].data.organization_id = OtherOrg
  /\ call["A"].result[1].organization_id = DEFAULT_ORG_ID

(***************************************************************************)
(* handleLogin / handleSignup and their 15-second timer (SpecAuth)         *)
(***************************************************************************)
\* what Auth.signIn / Auth.signUp settle with: a user with a session, a
\* user without one (sign-up awaiting confirmation), or an error
AuthResults == {"session", "unconfirmed", "error"}

\* the message of the timeout callback
TimeoutMessage(form) ==
  IF form = "login"
    THEN "Login timeout. Please check your connection and try again."
  ELSE "Signup timeout. Please try again."

\* handleLogin() / handleSignup() with valid fields, up to the await of
\* the auth call; a disabled submit button makes the handler return
Submit(form) ==
  /\ Len(submits) < MaxSubmits
  /\ ~disabled[form]
  /\ disabled' = [disabled EXCEPT ![form] = TRUE]
  /\ shownError' = Null
  /\ submits' = Append(submits, [form |-> form, pc |-> "pending",
                                 timer |-> "armed"])
  /\ UNCHANGED <<recipeVars, legacyVars, backendVars, storeVars, syncVars, realtimeVars, appShown>>

\* the callback of setTimeout(..., 15000) runs
AuthTimeout(k) ==
  /\ k \in 1..Len(submits)
  /\ submits[k].timer = "armed"
  /\ submits' = [submits EXCEPT ![k].timer = "fired"]
  /\ disabled' = [disabled EXCEPT ![submits[k].form] = FALSE]
  /\ shownError' = Some(TimeoutMessage(submits[k].form))
  /\ UNCHANGED <<recipeVars, legacyVars, backendVars, storeVars, syncVars, realtimeVars, appShown>>

\* the auth call of submission k settles: the rest of the handler
AuthSettles(k, result) ==
  /\ k \in 1..Len(submits)
  /\ submits[k].pc = "pending"
  /\ result = "unconfirmed" => submits[k].form = "signup"
  /\ LET form == submits[k].form
         timer == IF submits[k].timer = "armed" THEN "cleared"
                  ELSE submits[k].timer
     IN IF result = "session"
          THEN /\ submits' = [submits EXCEPT ![k].pc = "loggedIn",
                                             ![k].timer = timer]
               /\ appShown' = TRUE
               /\ UNCHANGED <<disabled, shownError>>
        ELSE /\ submits' = [submits EXCEPT ![k].pc = "failed",
                                           ![k].timer = timer]
             /\ shownError' = Some(IF result = "error" THEN "failed"
                                   ELSE "Account created! Please check email to confirm.")
             /\ disabled' = [disabled EXCEPT ![form] = FALSE]
             /\ UNCHANGED appShown
  /\ UNCHANGED <<recipeVars, legacyVars, backendVars, storeVars, syncVars, realtimeVars>>

NextAuth ==
  \/ \E form \in Forms : Submit(form)
  \/ \E k \in 1..MaxSubmits : AuthTimeout(k)
  \/ \E k \in 1..MaxSubmits, result \in AuthResults : AuthSettles(k, result)

SpecAuth == Init /\ [][NextAuth]_vars

\* when the timer of a submission runs, the timeout error is shown and the
\* submit control is enabled again
TimeoutReenables ==
  [][\A k \in 1..Len(submits) :
       (submits[k].timer = "armed" /\ submits'[k].timer = "fired")
         => /\ shownError' = Some(TimeoutMessage(submits[k].form))
            /\ ~disabled'[submits[k].form]]_vars

\* per form, at most one auth call is pending with its timer still armed
OnePending ==
  \A form \in Forms :
    Cardinality({k \in 1..Len(submits) :
                   /\ submits[k].form = form
                   /\ submits[k].pc = "pending"
                   /\ submits[k].timer = "armed"}) <= 1

\* C23: a sign-in or sign-up that has not completed after 15 seconds is
\* treated as failed and does not log the user in afterwards; while a
\* submission is pending and not timed out, no second auth call is started.
C23_AuthTimeout ==
  /\ \A k \in 1..Len(submits) :
       submits[k].timer = "fired" => submits[k].pc /= "loggedIn"
  /\ OnePending

(***************************************************************************)
(* Calls that target a record which is gone (SpecRetry)                    *)
(***************************************************************************)
\* the call of client c targets an id that was assigned to a row which is
\* no longer in the workspace
GoneTarget(c) ==
  /\ call[c].id /= Null
  /\ call[c].id[1] < nextId
  /\ Select(rows, call[c].id[1], DEFAULT_ORG_ID) = {}

\* C24: a store operation that targets a record which no longer exists is
\* treated as already gone: the not-found answer is not retried and does
\* not fail the caller.
C24_NotFoundNonFatal ==
  \A c \in Clients :
    (/\ GoneTarget(c)
     /\ call[c].lastError /= Null
     /\ call[c].lastError[1].code = "PGRST116")
      => call[c].pc \notin {"sleep", "thrown"}

(***************************************************************************)
(* Sync.Manager.save with failing store calls and cleanup (SpecSave)       *)
(***************************************************************************)
\* what a failed fetch is answered with by the store client (an empty
\* code), and the code the catch block of save() tests for
SaveFailCodes == {"", "NETWORK_ERROR"}

\* Sync.Manager.cleanup()
ManagerCleanup ==
  /\ saves' = Cleared(saves, saveTimeout)
  /\ saveTimeout' = Null
  /\ RealtimeCleanup
  /\ UNCHANGED <<recipeVars, authVars, legacyVars, backendVars, storeVars, storageFull, reloads,
                 online, isOnline, queue, stored, isSyncing, drain,
                 drainTimers, clock, replays>>

\* the saves of QueueOps and the delete of a recipe
SaveOps ==
  QueueOps \cup {[table |-> "recipes", action |-> "delete", data |-> <<>>,
                  id |-> Some(1)]}

NextSave ==
  \/ \E operation \in SaveOps : Len(saves) < MaxQueueSaves /\ Save(operation)
  \/ \E k \in 1..MaxQueueSaves : SaveTimerFires(k)
  \/ \E k \in 1..MaxQueueSaves : SaveServed(k)
  \/ \E k \in 1..MaxQueueSaves, code \in SaveFailCodes : SaveFails(k, code)
  \/ GoOnline
  \/ GoOffline
  \/ ProcessQueue
  \/ DrainServed
  \/ \E code \in SyncFailCodes : DrainFails(code)
  \/ ManagerCleanup

SpecSave == Init /\ [][NextSave]_vars

\* the errors of a request that did not reach the backend
NetworkErrors == {Err(code) : code \in SaveFailCodes}

\* C25: when an online save fails with a network error, its promise
\* resolves with the queued marker and the user is shown the operation as
\* queued, not as a failure.
C25_NetworkQueued ==
  \A k \in 1..Len(saves) :
    (saves[k].handled /= Null /\ saves[k].handled[1] \in NetworkErrors)
      => /\ saves[k].state = "resolved"
         /\ saves[k].result = Some([queued |-> TRUE])
         /\ saves[k].indicator /= Some("error")

\* what the catch block does with an error whose code is NETWORK_ERROR: the
\* operation is appended to the queue, once, and the promise resolves with
\* the queued marker
NetworkCodeEnqueues ==
  [][\A k \in 1..Len(saves) :
       (/\ saves[k].state = "running"
        /\ saves'[k].handled = Some(Err("NETWORK_ERROR")))
         => /\ saves'[k].result = Some([queued |-> TRUE])
            /\ Len(queue') = Len(Shift(queue)) + 1 \/ Len(queue') = Len(queue) + 1
            /\ queue'[Len(queue')].operation = saves[k].operation]_vars

\* the saves whose DB module call has been made and has not settled
Executing == {k \in 1..Len(saves) : saves[k].state = "running"}

\* C26: at most one save is executing against the store at any time; a
\* save whose debounce timer fires while the store call of an earlier save
\* is in flight does not run concurrently with it.
C26_SaveLock == Cardinality(Executing) <= 1

(***************************************************************************)
(* SupabaseSync.saveData on the shared workspace document (SpecLegacy)     *)
(***************************************************************************)
\* what each user saves: A has added ingredient X, B ingredient Y
PayloadOf(c) ==
  [ingredients |-> IF c = "A" THEN [k \in {"X"} |-> 50] ELSE [k \in {"Y"} |-> 20],
   recipes |-> <<>>,
   staff |-> <<>>]

\* { ...a, ...b } of two objects
Spread(a, b) ==
  [k \in DOMAIN a \cup DOMAIN b |-> IF k \in DOMAIN b THEN b[k] ELSE a[k]]

\* mutation: the existing document is not merged in
MergedPayload_New(existing, payload) == payload

\* mergedPayload of saveData
MergedPayload(existing, payload) ==
  IF existing = Null THEN payload
  ELSE [ingredients |-> Spread(existing[1].ingredients, payload.ingredients),
        recipes |-> Spread(existing[1].recipes, payload.recipes),
        staff |-> Spread(existing[1].staff, payload.staff)]

\* saveData(deviceId, payload, userId), up to the await of the select
SaveDataCall(c) ==
  /\ saveData[c].pc = "idle"
  /\ saveData[c].done < MaxSaveData
  /\ saveData' = [saveData EXCEPT ![c] =
       [@ EXCEPT !.pc = "select", !.payload = Some(PayloadOf(c)),
                 !.existing = Null, !.error = Null]]
  /\ UNCHANGED <<recipeVars, backendVars, storeVars, syncVars, realtimeVars, authVars,
                 sharedDoc>>

\* the select of the shared record is answered
SaveDataSelect(c) ==
  /\ saveData[c].pc = "select"
  /\ saveData' = [saveData EXCEPT ![c] =
       [@ EXCEPT !.pc = "write", !.existing = sharedDoc]]
  /\ UNCHANGED <<recipeVars, backendVars, storeVars, syncVars, realtimeVars, authVars,
                 sharedDoc>>

\* the update (a record existed at the select) or the insert is answered;
\* device_id is the primary key, so a second insert is refused
SaveDataWrite(c) ==
  /\ saveData[c].pc = "write"
  /\ LET sd == saveData[c]
         merged == MergedPayload(sd.existing, sd.payload[1])
     IN IF sd.existing = Null /\ sharedDoc /= Null
          THEN /\ saveData' = [saveData EXCEPT ![c] =
                    [sd EXCEPT !.pc = "idle", !.error = Some(Err("23505"))]]
               /\ UNCHANGED sharedDoc
        ELSE /\ sharedDoc' = Some(merged)
             /\ saveData' = [saveData EXCEPT ![c] =
                  [sd EXCEPT !.pc = "idle", !.done = @ + 1]]
  /\ UNCHANGED <<recipeVars, backendVars, storeVars, syncVars, realtimeVars, authVars>>

\* the one-time migration has run before any save: it leaves one shared
\* record, here with nothing in it
Migration ==
  /\ sharedDoc = Null
  /\ \A c \in Clients : saveData[c] = IdleSaveData
  /\ sharedDoc' = Some([ingredients |-> <<>>, recipes |-> <<>>, staff |-> <<>>])
  /\ UNCHANGED <<recipeVars, backendVars, storeVars, syncVars, realtimeVars, authVars,
                 saveData>>

NextLegacy ==
  \/ Migration
  \/ \E c \in Clients : SaveDataCall(c)
  \/ \E c \in Clients : SaveDataSelect(c)
  \/ \E c \in Clients : SaveDataWrite(c)

SpecLegacy == Init /\ [][NextLegacy]_vars

\* every client has saved and no saveData call is running
AllSaved ==
  \A c \in Clients : saveData[c].pc = "idle" /\ saveData[c].done >= 1

\* C27: when A and B concurrently save disjoint additions (A adds X, B adds
\* Y), then after both saveData calls have completed the shared document
\* contains both X and Y, for every interleaving.
C27_BothAdditions ==
  AllSaved
    => /\ sharedDoc /= Null
       /\ {"X", "Y"} \subseteq DOMAIN sharedDoc[1].ingredients

\* what holds when the calls do not overlap: a save that reads the document
\* after the other save has written it keeps the other's additions
MergeKeepsExisting ==
  [][\A c \in Clients :
       (/\ saveData[c].pc = "write"
        /\ saveData'[c].done = saveData[c].done + 1
        /\ saveData[c].existing = sharedDoc
        /\ sharedDoc /= Null)
         => DOMAIN sharedDoc[1].ingredients \subseteq DOMAIN sharedDoc'[1].ingredients]_vars

(***************************************************************************)
(* The drain after a reconnect, with timers that fire and requests that    *)
(* settle (SpecDrain)                                                      *)
(***************************************************************************)
\* the request of the replay in progress settles, one way or the other
ReplaySettles == DrainServed \/ \E code \in SyncFailCodes : DrainFails(code)

\* a timer that is set fires, and a request that was sent is answered or
\* fails
SpecDrain ==
  /\ Init
  /\ [][NextSave]_vars
  /\ WF_vars(ProcessQueue)
  /\ WF_vars(ReplaySettles)

\* the `online` event sets the timer of a drain, and the timer starts one
\* when none is running and the queue has entries
ReconnectStartsDrain ==
  /\ (~online /\ online') => drainTimers' = drainTimers + 1
  /\ (drainTimers' = drainTimers - 1 /\ ~isSyncing /\ queue /= <<>>)
       => isSyncing' /\ drain'.pc = "exec" /\ drain'.item = Some(queue[1])

\* C28: whenever the connection is reported restored, a drain of the queue
\* is started by the timer set for it (unless one is running), and the
\* drain goes on until the queue is empty.
C28_DrainOnReconnect ==
  /\ [][ReconnectStartsDrain]_vars
  /\ (drainTimers > 0) ~> (queue = <<>> /\ ~isSyncing)

\* a drain started after a reconnect has ended with the queue empty, one
\* operation replayed and one dropped after its third failure
C28_Witness ==
  /\ queue = <<>>
  /\ ~isSyncing
  /\ drainTimers = 0
  /\ drain.pc = "idle"
  /\ \E i \in 1..Len(replays) : replays[i].ok = 1
  /\ \E j \in 1..Len(replays) : replays[j].failed = 3

(***************************************************************************)
(* One debounce timer for every save (SpecSave)                            *)
(***************************************************************************)
\* a save made while the timer of the one before it was pending leaves
\* that one superseded, with no DB module call and no status shown
EarlierSuperseded ==
  \A k \in 1..(Len(saves) - 1) :
    saves[k + 1].inWindow
      => /\ saves[k].state = "superseded"
         /\ saves[k].called = Null
         /\ saves[k].indicator = Null
         /\ saves[k].result = Null

\* a superseded save does nothing any more, and every entry the queue
\* gets is put there by the callback of a save that was not superseded
SupersededIsInert ==
  /\ \A k \in 1..Len(saves) :
       saves[k].state = "superseded" => saves'[k] = saves[k]
  /\ Len(replays') > Len(replays)
       => \E k \in 1..Len(saves) :
            /\ saves[k].state \in {"armed", "running"}
            /\ saves'[k].state = "resolved"
            /\ queue'[Len(queue')].operation = saves[k].operation

\* C29: of two save() calls made within the debounce window, whatever
\* their collection, action or record id, only the later one executes; the
\* earlier one makes no store call and is not enqueued.
C29_GlobalWindow == []EarlierSuperseded /\ [][SupersededIsInert]_vars

\* a save of one collection was superseded by a save of another collection
\* and action, which has made its store call
C29_Witness ==
  /\ Len(saves) = 2
  /\ saves[2].inWindow
  /\ saves[1].operation.table /= saves[2].operation.table
  /\ saves[1].operation.action /= saves[2].operation.action
  /\ saves[1].state = "superseded"
  /\ saves[2].called = Some(saves[2].operation)
  /\ saves[2].state \in {"resolved", "rejected"}

(***************************************************************************)
(* The promise of a save whose timer was cleared (SpecSave)                *)
(***************************************************************************)
\* this step clears the pending timer of save number k: a later save() or
\* Manager.cleanup()
TimerCleared(k) ==
  /\ saves[k].state = "armed"
  /\ saveTimeout = Some(k)
  /\ saveTimeout' /= saveTimeout

\* C30: the promise of a save() that is superseded by a later save() within
\* the debounce window, or cancelled by Manager.cleanup(), is never
\* resolved and never rejected.
C30_NeverSettles ==
  [][\A k \in 1..Len(saves) :
       (TimerCleared(k) \/ saves[k].state = "superseded")
         => /\ saves'[k].state = "superseded"
            /\ saves'[k].result = Null
            /\ saves'[k].error = Null]_vars

\* one save superseded by the next, the next cancelled by cleanup
C30_Witness ==
  /\ Len(saves) = 2
  /\ saves[2].inWindow
  /\ saves[1].state = "superseded"
  /\ saves[2].state = "superseded"
  /\ saveTimeout = Null

(***************************************************************************)
(* Two clients updating one record under the optimistic lock (SpecRace)    *)
(***************************************************************************)
RaceInputs == {[price_per_unit |-> 10], [price_per_unit |-> 20]}

NextRace ==
  \/ \E data \in CreateInputs :
        ncalls["A"] < 1 /\ IngredientsCreate("A", data)
  \/ \E c \in Clients, u \in RaceInputs, v \in 1..MaxVersion :
        ncalls[c] < MaxDupCalls /\ IngredientsUpdate(c, 1, u, Some(v))
  \/ \E c \in Clients : CheckDuplicateReply(c)
  \/ \E c \in Clients : VersionRead(c, TRUE)
  \/ \E c \in Clients : Write(c)
  \/ \E c \in Clients : Wake(c)
  \/ \E c \in Clients : Settle(c)

SpecRace == Init /\ [][NextRace]_vars

\* both clients are in an update of record 1 called with expectedVersion v,
\* the version read of both returned v, and both writes were applied
BothPassed(v) ==
  \A c \in Clients :
    /\ call[c].action = "update"
    /\ call[c].id = Some(1)
    /\ call[c].expectedVersion = Some(v)
    /\ call[c].current = Some(v)
    /\ call[c].pc = "returned"

\* C31: the version read and the write of update are separate steps: when
\* two clients call update on the same record with the same valid
\* expectedVersion v, both can pass the version check and have their writes
\* applied; then neither call ends in a conflict error, the record holds
\* the second write and its version is v + 2.
C31_CheckThenAct ==
  \A v \in 1..MaxVersion :
    BothPassed(v) =>
      /\ \A c \in Clients : call[c].error = Null
      /\ {call[c].result[1].version : c \in Clients} = {v + 1, v + 2}
      /\ \E c \in Clients :
           /\ call[c].result[1].version = v + 2
           /\ Select(rows, 1, DEFAULT_ORG_ID) = {call[c].result[1]}
           /\ call[c].result[1].price_per_unit = call[c].data.price_per_unit

\* both passed the check of version 1 at their first attempt, the writes
\* carried different prices and the record is at version 3
C31_Witness ==
  /\ BothPassed(1)
  /\ \A c \in Clients : call[c].errs = <<>> /\ call[c].attempt = 1
  /\ call["A"].data.price_per_unit /= call["B"].data.price_per_unit
  /\ \E r \in rows : r.id = 1 /\ r.version = 3

(***************************************************************************)
(* Retry of a subscription (SpecChannels)                                  *)
(***************************************************************************)
\* the channels of tableName that the Map no longer holds
OrphansOf(orph, tableName) ==
  {k \in 1..Len(orph) : orph[k].table = tableName}

\* in this step the status callback of a channel of tableName is told status
Reports(tableName, status) ==
  \/ /\ channels[tableName] = Some("joining")
     /\ channels'[tableName] = Some(StateAfter(status))
  \/ \E k \in OrphansOf(orphans, tableName) :
       /\ orphans[k].state = "joining"
       /\ orphans'[k].state = StateAfter(status)

\* in this step subscribe(tableName) opens a channel
Opens(tableName) ==
  /\ channels'[tableName] = Some("joining")
  /\ \/ channels[tableName] /= Some("joining")
     \/ Cardinality(OrphansOf(orphans', tableName))
          > Cardinality(OrphansOf(orphans, tableName))

\* C32: a subscription that reports a timeout is re-subscribed once, 5
\* seconds later, for that collection: the report arms exactly one timer of
\* that collection and opens nothing itself, and outside init() a channel
\* is opened only by such a timer, which it uses up.  A subscription that
\* reports a hard channel error arms no timer and opens nothing.
C32_SubscriptionRetry ==
  [][\A t \in Tables :
       /\ Reports(t, "TIMED_OUT")
            => /\ retryTimers' = [retryTimers EXCEPT ![t] = @ + 1]
               /\ \A u \in Tables : ~Opens(u)
       /\ Reports(t, "CHANNEL_ERROR")
            => /\ retryTimers' = retryTimers
               /\ \A u \in Tables : ~Opens(u)
       /\ (Opens(t) /\ ~(~isInitialized /\ isInitialized'))
            => /\ retryTimers[t] > 0
               /\ retryTimers' = [retryTimers EXCEPT ![t] = @ - 1]
       /\ retryTimers'[t] > retryTimers[t] => Reports(t, "TIMED_OUT")]_vars

\* the ingredients channel timed out and was opened again by its timer;
\* the recipes channel reported a hard error and stays as it is
C32_Witness ==
  /\ isInitialized
  /\ orphans = <<[table |-> "ingredients", state |-> "timedOut"]>>
  /\ channels["ingredients"] = Some("joining")
  /\ channels["recipes"] = Some("errored")
  /\ retryTimers = [t \in Tables |-> 0]

(***************************************************************************)
(* The toast for a change made by somebody else (SpecToast)                *)
(***************************************************************************)
Users == {"A", "B"}

\* the row of a change as postgres_changes sends it: the columns of the
\* table (created_by among them; the tables have no column for the user
\* who last wrote the row), with the email column a view may add
ChangedRow(creator, email) ==
  IF email = Null THEN [id |-> 1, created_by |-> creator]
  ELSE [id |-> 1, created_by |-> creator, created_by_email |-> email[1]]

\* the notification of a write made by user `by` to a row created by
\* `creator`; `by` is history, no code reads it
ChangeOf(by, creator, eventType, email) ==
  [eventType |-> eventType,
   new |-> IF eventType = "DELETE" THEN Null
           ELSE Some(ChangedRow(creator, email)),
   old |-> IF eventType = "INSERT" THEN Null
           ELSE Some(ChangedRow(creator, email)),
   by |-> by]

\* an insert is made by the user DB.Base.create records as created_by
ToastPayloads ==
  {ChangeOf(x[1], x[2], x[3], x[4]) :
     x \in {y \in Users \X Users \X {"INSERT", "UPDATE", "DELETE"}
                    \X {Null, Some("b@gokul")} :
              y[3] = "INSERT" => y[1] = y[2]}}

NextToast ==
  \/ RealtimeInit
  \/ \E t \in Tables : ChannelStatus(t, "SUBSCRIBED")
  \/ On("ingredients", "plain")
  \/ \E t \in Tables, payload \in ToastPayloads : HandleUpdate(t, payload)
  \/ Cleanup

SpecToast == Init /\ [][NextToast]_vars

\* the toast names the user of the row, or "Another user", and the action
ToastNamesUser ==
  (last /= Null /\ last[1].message /= Null) =>
    LET payload == last[1].payload
        record == IF payload.new /= Null THEN payload.new[1] ELSE payload.old[1]
        message == last[1].message[1]
    IN /\ message.userName =
            IF Has(record, "created_by_email") THEN record.created_by_email
            ELSE "Another user"
       /\ message.action =
            CASE payload.eventType = "INSERT" -> "added"
              [] payload.eventType = "UPDATE" -> "updated"
              [] payload.eventType = "DELETE" -> "deleted from"

\* C33: on a change notification a toast naming the acting user (or
\* "Another user") and the action is shown if and only if the change was
\* made by a user other than the current session's user.
C33_ForeignToast ==
  /\ last /= Null => (last[1].message /= Null <=> last[1].payload.by /= CurrentUser)
  /\ ToastNamesUser

(***************************************************************************)
(* DB.Recipes (src/db/recipes.js): a recipe row and its ingredient links   *)
(* in recipe_ingredients.  Every request either reaches the backend        *)
(* (served) or fails in transport; supabase-js reports both kinds of       *)
(* failure in the `error` of the value the request resolves to.            *)
(***************************************************************************)
RecipeNames == {<<"m">>, <<"s">>}

\* the ingredients lists passed to create / update; the ingredient ids are
\* those of stored ingredients.  One list names an ingredient twice, one
\* has a quantity the schema rejects.
Link(ingredient_id, quantity) ==
  [ingredient_id |-> ingredient_id, quantity |-> quantity]

LinkLists ==
  { <<>>, <<Link(1, 2)>>, <<Link(2, 3)>>, <<Link(1, 2), Link(2, 3)>>,
    <<Link(1, 2), Link(1, 5)>>, <<Link(1, 0)>> }

\* ingredients.map(ing => ({recipe_id, ingredient_id, quantity: parseFloat}))
IngredientRecords(id, ingredients) ==
  [j \in 1..Len(ingredients) |->
     [recipe_id |-> id, ingredient_id |-> ingredients[j].ingredient_id,
      quantity |-> ParseFloat(ingredients[j].quantity)]]

\* INSERT of several rows into recipe_ingredients, all or none:
\* CONSTRAINT valid_quantity, PRIMARY KEY (recipe_id, ingredient_id),
\* recipe_id REFERENCES recipes(id); <<table', error>>
LinksInsert(lnk, recipes, records) ==
  LET n == Len(records)
  IN IF \E j \in 1..n : ~(records[j].quantity > 0)
       THEN <<lnk, Some(Err("23514"))>>
     ELSE IF \/ \E i, j \in 1..n :
                  /\ i < j
                  /\ records[i].ingredient_id = records[j].ingredient_id
             \/ \E j \in 1..n, l \in lnk :
                  /\ l.recipe_id = records[j].recipe_id
                  /\ l.ingredient_id = records[j].ingredient_id
       THEN <<lnk, Some(Err("23505"))>>
     ELSE IF \E j \in 1..n : \A r \in recipes : r.id /= records[j].recipe_id
       THEN <<lnk, Some(Err("23503"))>>
     ELSE <<lnk \cup {records[j] : j \in 1..n}, Null>>

\* DELETE FROM recipe_ingredients WHERE recipe_id = id
LinksDelete(lnk, id) == {l \in lnk : l.recipe_id /= id}

\* DELETE FROM recipes WHERE id = id; recipe_id ... ON DELETE CASCADE
RecipeDelete(recipes, lnk, id) ==
  <<{r \in recipes : r.id /= id}, LinksDelete(lnk, id)>>

\* DB.Recipes.create(recipeData), up to the await of checkDuplicate
RecipesCreate(c, name, ingredients) ==
  /\ recipeCall[c].pc = "idle"
  /\ recipeCall[c].n < MaxRecipeCalls
  /\ recipeCall' = [recipeCall EXCEPT ![c] =
       [IdleRecipeCall EXCEPT !.pc = "dupcheck", !.action = "create",
                              !.name = name, !.ingredients = Some(ingredients),
                              !.n = recipeCall[c].n + 1]]
  /\ UNCHANGED <<recipeRows, links, nextRecipeId>>
  /\ UNCHANGED <<backendVars, storeVars, syncVars, realtimeVars, authVars,
                 legacyVars>>

\* create: the answer of checkDuplicate
RecipeDuplicateReply(c) ==
  /\ recipeCall[c].pc = "dupcheck"
  /\ LET cl == recipeCall[c]
         found == DuplicateRows(recipeRows, DEFAULT_ORG_ID, cl.name, Null)
     IN recipeCall' = [recipeCall EXCEPT ![c] =
          IF Cardinality(found) = 1
            THEN [cl EXCEPT !.pc = "thrown", !.error = Some(Err("DUPLICATE"))]
          ELSE [cl EXCEPT !.pc = "insertRecipe"]]
  /\ UNCHANGED <<recipeRows, links, nextRecipeId>>
  /\ UNCHANGED <<backendVars, storeVars, syncVars, realtimeVars, authVars,
                 legacyVars>>

\* create, step 1: the answer to the insert of the recipe row, and the code
\* up to the next await or the return
RecipeInsert(c, served) ==
  /\ recipeCall[c].pc = "insertRecipe"
  /\ served => nextRecipeId <= MaxRecipes
  /\ LET cl == recipeCall[c]
         row == [id |-> nextRecipeId, organization_id |-> DEFAULT_ORG_ID,
                 created_by |-> UserOf(c), name |-> Trim(cl.name),
                 version |-> 1]
         recipeError == IF ~served THEN Some(Err(""))
                        ELSE IF UniqueViolation(recipeRows, row)
                          THEN Some(Err("23505"))
                        ELSE Null
     IN IF recipeError /= Null
          THEN /\ recipeCall' = [recipeCall EXCEPT ![c] =
                    [cl EXCEPT !.pc = "thrown", !.error = recipeError]]
               /\ UNCHANGED <<recipeRows, nextRecipeId>>
        ELSE /\ recipeRows' = recipeRows \cup {row}
             /\ nextRecipeId' = nextRecipeId + 1
             /\ recipeCall' = [recipeCall EXCEPT ![c] =
                  IF Len(cl.ingredients[1]) > 0
                    THEN [cl EXCEPT !.pc = "insertLinks", !.id = Some(row.id),
                                    !.recipe = Some(row)]
                  ELSE [cl EXCEPT !.pc = "returned", !.id = Some(row.id),
                                  !.recipe = Some(row), !.result = Some(row)]]
  /\ UNCHANGED links
  /\ UNCHANGED <<backendVars, storeVars, syncVars, realtimeVars, authVars,
                 legacyVars>>

\* create, step 2: the answer to the insert of the ingredient links
CreateLinksReply(c, served) ==
  /\ recipeCall[c].pc = "insertLinks"
  /\ recipeCall[c].action = "create"
  /\ LET cl == recipeCall[c]
         reply == IF served
                    THEN LinksInsert(links, recipeRows,
                           IngredientRecords(cl.id[1], cl.ingredients[1]))
                  ELSE <<links, Some(Err(""))>>
     IN /\ links' = reply[1]
        /\ recipeCall' = [recipeCall EXCEPT ![c] =
             IF reply[2] /= Null
               THEN [cl EXCEPT !.pc = "rollback", !.error = reply[2]]
             ELSE [cl EXCEPT !.pc = "returned", !.result = cl.recipe]]
  /\ UNCHANGED <<recipeRows, nextRecipeId>>
  /\ UNCHANGED <<backendVars, storeVars, syncVars, realtimeVars, authVars,
                 legacyVars>>

\* create, rollback: the answer to the delete of the recipe row, which the
\* code awaits without reading; then throw ingredientsError
Rollback(c, served) ==
  /\ recipeCall[c].pc = "rollback"
  /\ LET cl == recipeCall[c]
         after == IF served THEN RecipeDelete(recipeRows, links, cl.id[1])
                  ELSE <<recipeRows, links>>
     IN /\ recipeRows' = after[1]
        /\ links' = after[2]
        /\ recipeCall' = [recipeCall EXCEPT ![c].pc = "thrown"]
  /\ UNCHANGED nextRecipeId
  /\ UNCHANGED <<backendVars, storeVars, syncVars, realtimeVars, authVars,
                 legacyVars>>

\* DB.Recipes.update(id, updates) for updates without a name, with or
\* without an ingredients list, up to the await of DB.Base.update
RecipesUpdate(c, id, ingredients) ==
  /\ recipeCall[c].pc = "idle"
  /\ recipeCall[c].n < MaxRecipeCalls
  /\ recipeCall' = [recipeCall EXCEPT ![c] =
       [IdleRecipeCall EXCEPT !.pc = "updateRecipe", !.action = "update",
                              !.id = Some(id), !.ingredients = ingredients,
                              !.n = recipeCall[c].n + 1]]
  /\ UNCHANGED <<recipeRows, links, nextRecipeId>>
  /\ UNCHANGED <<backendVars, storeVars, syncVars, realtimeVars, authVars,
                 legacyVars>>

\* update: DB.Base.update has returned or thrown; served = FALSE is a call
\* whose every attempt failed in transport
RecipeUpdated(c, served) ==
  /\ recipeCall[c].pc = "updateRecipe"
  /\ LET cl == recipeCall[c]
         sel == Select(recipeRows, cl.id[1], DEFAULT_ORG_ID)
     IN IF ~served \/ sel = {}
          THEN /\ recipeCall' = [recipeCall EXCEPT ![c] =
                    [cl EXCEPT !.pc = "thrown",
                               !.error = Some(Err(IF served THEN "PGRST116"
                                                  ELSE ""))]]
               /\ UNCHANGED recipeRows
        ELSE LET old == CHOOSE r \in sel : TRUE
                 new == UpdatedRow(old, <<>>)
             IN /\ recipeRows' = (recipeRows \ {old}) \cup {new}
                /\ recipeCall' = [recipeCall EXCEPT ![c] =
                     IF cl.ingredients = Null
                       THEN [cl EXCEPT !.pc = "returned", !.result = Some(new)]
                     ELSE [cl EXCEPT !.pc = "deleteLinks",
                                     !.result = Some(new)]]
  /\ UNCHANGED <<links, nextRecipeId>>
  /\ UNCHANGED <<backendVars, storeVars, syncVars, realtimeVars, authVars,
                 legacyVars>>

\* update: the answer to the delete of the existing links, which the code
\* awaits without reading
LinksDeleteReply(c, served) ==
  /\ recipeCall[c].pc = "deleteLinks"
  /\ links' = IF served THEN LinksDelete(links, recipeCall[c].id[1]) ELSE links
  /\ recipeCall' = [recipeCall EXCEPT ![c].pc =
       IF Len(recipeCall[c].ingredients[1]) > 0 THEN "insertLinks"
       ELSE "returned"]
  /\ UNCHANGED <<recipeRows, nextRecipeId>>
  /\ UNCHANGED <<backendVars, storeVars, syncVars, realtimeVars, authVars,
                 legacyVars>>

\* update: the answer to the insert of the new links, which the code
\* awaits without reading
UpdateLinksReply(c, served) ==
  /\ recipeCall[c].pc = "insertLinks"
  /\ recipeCall[c].action = "update"
  /\ LET cl == recipeCall[c]
         reply == IF served
                    THEN LinksInsert(links, recipeRows,
                           IngredientRecords(cl.id[1], cl.ingredients[1]))
                  ELSE <<links, Some(Err(""))>>
     IN links' = reply[1]
  /\ recipeCall' = [recipeCall EXCEPT ![c].pc = "returned"]
  /\ UNCHANGED <<recipeRows, nextRecipeId>>
  /\ UNCHANGED <<backendVars, storeVars, syncVars, realtimeVars, authVars,
                 legacyVars>>

\* the caller has taken the result or the error of the DB.Recipes call
RecipeSettle(c) ==
  /\ recipeCall[c].pc \in {"returned", "thrown"}
  /\ recipeCall' = [recipeCall EXCEPT ![c] =
       [IdleRecipeCall EXCEPT !.n = recipeCall[c].n]]
  /\ UNCHANGED <<recipeRows, links, nextRecipeId>>
  /\ UNCHANGED <<backendVars, storeVars, syncVars, realtimeVars, authVars,
                 legacyVars>>

\* One client creating and updating recipes, each request served or failed.
NextRecipes ==
  \/ \E name \in RecipeNames, ingredients \in LinkLists :
        RecipesCreate("A", name, ingredients)
  \/ RecipeDuplicateReply("A")
  \/ \E served \in BOOLEAN : RecipeInsert("A", served)
  \/ \E served \in BOOLEAN : CreateLinksReply("A", served)
  \/ \E served \in BOOLEAN : Rollback("A", served)
  \/ \E id \in 1..MaxRecipes,
        ingredients \in {Null} \cup {Some(l) : l \in LinkLists} :
        RecipesUpdate("A", id, ingredients)
  \/ \E served \in BOOLEAN : RecipeUpdated("A", served)
  \/ \E served \in BOOLEAN : LinksDeleteReply("A", served)
  \/ \E served \in BOOLEAN : UpdateLinksReply("A", served)
  \/ RecipeSettle("A")

SpecRecipes == Init /\ [][NextRecipes]_vars

\* the links stored for the recipe
LinksOf(lnk, id) == {l \in lnk : l.recipe_id = id}

\* C34: whenever Recipes.update(id, updates) with an ingredients list L
\* returns successfully, the links stored for that recipe are exactly L:
\* every previous link removed, one link per element of L.
C34_LinksReplaced ==
  [][\A c \in Clients :
       (/\ recipeCall[c].action = "update"
        /\ recipeCall[c].ingredients /= Null
        /\ recipeCall[c].pc /= "returned"
        /\ recipeCall'[c].pc = "returned")
         => LET id == recipeCall[c].id[1]
                L == recipeCall[c].ingredients[1]
            IN /\ LinksOf(links', id) =
                    {IngredientRecords(id, L)[j] : j \in 1..Len(L)}
               /\ Cardinality(LinksOf(links', id)) = Len(L)]_vars

\* when every request of the update is served and the backend accepts the
\* list, the links are replaced by it
ReplacedWhenAccepted ==
  [][\A c \in Clients :
       (/\ recipeCall[c].action = "update"
        /\ recipeCall[c].pc = "insertLinks"
        /\ recipeCall'[c].pc = "returned"
        /\ links' /= links)
         => LET id == recipeCall[c].id[1]
                L == recipeCall[c].ingredients[1]
            IN {IngredientRecords(id, L)[j] : j \in 1..Len(L)}
                 \subseteq LinksOf(links', id)]_vars

\* C35: if inserting the ingredient links fails during Recipes.create, the
\* recipe row inserted by that call is deleted and the error is raised: a
\* create that has failed leaves no recipe row of its own behind.
C35_CreateAllOrNothing ==
  \A c \in Clients :
    (recipeCall[c].action = "create" /\ recipeCall[c].pc = "thrown")
      => /\ recipeCall[c].error /= Null
         /\ recipeCall[c].recipe /= Null
              => Select(recipeRows, recipeCall[c].id[1], DEFAULT_ORG_ID) = {}

\* a rollback whose delete is served removes the row and throws the error
\* of the links insert
RollbackServed ==
  [][\A c \in Clients :
       (recipeCall[c].pc = "rollback" /\ recipeRows' /= recipeRows)
         => /\ Select(recipeRows', recipeCall[c].id[1], DEFAULT_ORG_ID) = {}
            /\ recipeCall'[c].pc = "thrown"
            /\ recipeCall'[c].error = recipeCall[c].error]_vars

(***************************************************************************)
(* The drain against a concurrent enqueue (SpecSync)                       *)
(***************************************************************************)
\* this step is the continuation of processQueue after the await of
\* executeOperation, with or without an error
ReplayAnswered ==
  /\ drain.pc = "exec"
  /\ replays' /= replays

\* C36: every entry the drain loop removes from the queue is the operation
\* it has just executed (or that has just failed for the third time); an
\* enqueue made while the drain awaits the store call, also onto a full
\* queue, never makes the drain remove an operation it did not execute.
C36_DrainRemovesExecuted ==
  [][ReplayAnswered =>
       \A i \in QueueIds :
         i \notin {queue'[j].id : j \in 1..Len(queue')} => i = InFlight.id]_vars

(***************************************************************************)
(* A drain that runs while the browser is offline (SpecSync)               *)
(***************************************************************************)
\* C37: an operation queued in the change log is never dropped as failed
\* while the runtime reports offline: a drain that runs, or is still
\* running, when connectivity is lost leaves every operation it could not
\* deliver in the queue.
C37_NoLossOffline ==
  [][\A i \in 1..Len(replays) :
       (~online /\ ReplayFailed(i))
         => i \in {queue'[j].id : j \in 1..Len(queue')}]_vars

(***************************************************************************)
(* The change log of a client that is online (SpecStart)                   *)
(***************************************************************************)
\* the saves and the drain of SpecSave, with the page reloaded at any time:
\* init() loads the persisted queue
NextStart == NextSave \/ Reload

\* a timer that is set fires, and a request that was sent is answered or
\* fails
SpecStart ==
  /\ Init
  /\ [][NextStart]_vars
  /\ WF_vars(ProcessQueue)
  /\ WF_vars(ReplaySettles)

\* C38: every operation in the change log is eventually replayed or
\* dropped once the client is online, also operations loaded from the
\* persisted queue when the app starts online and operations enqueued
\* after a network-classified failure while online: while the client stays
\* online the queue gets empty.
C38_EventualReplay ==
  (online /\ queue /= <<>>) ~> (queue = <<>> \/ ~online)

\* the only caller of processQueue is the timer handleOnline sets: without
\* a pending timer and without a running drain the queue is left as it is
\* by every step but an enqueue and clearing the page
NoDrainWithoutTimer ==
  [][(drainTimers = 0 /\ ~isSyncing /\ clock' = clock /\ reloads' = reloads)
       => queue' = queue]_vars

(***************************************************************************)
(* Termination of the drain (SpecDrain)                                    *)
(***************************************************************************)
\* an operation is executed at most 3 times
ExecutedAtMostThrice ==
  \A i \in 1..Len(replays) : replays[i].ok + replays[i].failed <= 3

\* processQueue returns from its loop only with the queue empty, and with
\* isSyncing reset
ReturnsEmpty ==
  (isSyncing /\ ~isSyncing')
    => /\ queue' = <<>>
       /\ drain'.pc = "idle"
       /\ drain'.running = drain.running - 1

\* C39: every processQueue invocation that starts a drain terminates after
\* finitely many store calls (each queued operation is executed at most 3
\* times), and when it returns the queue is empty and isSyncing is false,
\* whatever way the replays fail.
C39_DrainTerminates ==
  /\ []ExecutedAtMostThrice
  /\ [][ReturnsEmpty]_vars
  /\ isSyncing ~> (~isSyncing /\ queue = <<>>)

\* the drains have ended after six store calls: one operation failed twice
\* and was then applied, the other failed three times and was dropped
C39_Witness ==
  /\ ~isSyncing
  /\ queue = <<>>
  /\ drain = IdleDrain
  /\ Len(replays) = 2
  /\ replays[1] = [ok |-> 1, failed |-> 2]
  /\ replays[2] = [ok |-> 0, failed |-> 3]

(***************************************************************************)
(* The write of a versioned update (SpecRetry)                             *)
(***************************************************************************)
\* C40: when update is called with an expectedVersion, a write is issued
\* only after a version read that succeeded and returned exactly
\* expectedVersion; if the read fails or returns no row, on the first
\* attempt or on a retry, that attempt issues no write.
C40_GuardedWrite ==
  \A c \in Clients :
    LET cl == call[c]
    IN (cl.action = "update" /\ cl.expectedVersion /= Null /\ cl.pc = "write")
         => cl.current = cl.expectedVersion

\* a version read that returns a row lets the write go on only when the
\* versions are equal
ReadGuards ==
  \A c \in Clients :
    LET cl == call[c]
    IN (/\ cl.action = "update" /\ cl.expectedVersion /= Null
        /\ cl.pc = "write" /\ cl.current /= Null)
         => cl.current = cl.expectedVersion

====
